---- MODULE Spec2Model ----
(***************************************************************************)
(* Retrieval-and-generation orchestration engine: circuit breaker,         *)
(* language-model client, response cache and event-stream generation.      *)
(* Every operator and action is translated from the Python sources under   *)
(* src/backend/app/services.  Time is a discrete clock in seconds.         *)
(***************************************************************************)
EXTENDS Integers, Sequences, FiniteSets, TLC

\* ------------------------------------------------------------------------
\* Bounds of the model
\* ------------------------------------------------------------------------
NumCallers == 2

MaxTicks == 3

\* clock advances in one behaviour of the generation engine
MaxCacheTicks == 1

\* generate_response calls made in one behaviour
MaxRequests == 2

\* text fragments one language-model stream delivers at most
MaxFragments == 2

\* ResponseCache(max_size=...)
max_size == 3

\* ResponseCache.get calls made in one behaviour of the cache on its own
MaxGets == 1

\* RateLimiter(queries_per_hour=...)
queries_per_hour == 2

\* RateLimiter(max_concurrent_streams=...)
max_concurrent_streams == 2

\* clock advances in one behaviour of the rate limiter
MaxRLTicks == 2

\* length of the document_ids list handed to compute_key
MaxDocs == 2

\* largest n_results handed to retrieve_context
MaxNResults == 3

\* largest number of paragraphs of a document handed to chunk_document
MaxParagraphs == 3

\* send_message calls made on the session, and token events of one answer
MaxChatMessages == 2

MaxChatTokens == 2

\* ------------------------------------------------------------------------
\* Program constants
\* ------------------------------------------------------------------------
\* DeepSeekClient.__init__: CircuitBreaker(failure_threshold=5,
\* recovery_timeout_seconds=60, success_threshold=2)
failure_threshold == 5

recovery_timeout == 60

success_threshold == 2

\* CircuitBreaker.__init__: self.last_failure_time = None
NoTime == -1

\* ResponseCache.__init__: timedelta(hours=24), in seconds
ttl == 86400

\* RateLimiter.check_query_limit: timedelta(hours=1), in seconds
hour == 3600

CLOSED == "closed"

OPEN == "open"

HALF_OPEN == "half_open"

CircuitState == {CLOSED, OPEN, HALF_OPEN}

Callers == 1..NumCallers

\* chat sessions known to the rate limiter
Sessions == {"s1", "s2"}

\* ids of the documents uploaded; a task has the id of its document
TaskIds == {"t1", "t2"}

\* TaskManager._tasks.get(task_id) of a task that is not tracked
NoTask == [status |-> "absent", progress |-> <<>>, error |-> ""]

\* seconds added to the clock by one step of time, on the scale of the
\* breaker's recovery window
TickSteps == {1, recovery_timeout}

\* seconds added to the clock while the generation engine runs: an entry aged
\* exactly the time-to-live, and one aged just past it
CacheTickSteps == {ttl, ttl + 1}

VARIABLES
    now,              \* datetime.now(), in seconds
    ticks,            \* number of clock advances so far
    circuit_breaker,  \* CircuitBreaker: state, failure_count, success_count, last_failure_time
    call_pc,          \* per caller: position inside CircuitBreaker.call
    outcome,          \* how the call of the latest step stands or ended
    op_invoked,       \* the call of the latest step invoked the wrapped operation
    recorded,         \* outcomes the call of the latest step recorded in the breaker
    last_op,          \* the operation the latest step belongs to, its caller, and the
                      \* breaker state in which that caller's call was admitted
    admitted_in,      \* per caller in flight: breaker state in which its call was admitted
    consec_failures,  \* history: failures recorded since the latest recorded success
    ho_successes,     \* history: successes recorded since the breaker last entered Half-Open
    opened_at,        \* history: time at which the breaker last entered Open
    provider_state,   \* what the DeepSeek API does when a request reaches it
    sc_result,        \* per caller: how its latest DeepSeekClient.stream_chat ended
    provider_invoked, \* per caller: its latest stream_chat reached the DeepSeek API
    provider_failures, \* history: requests that reached the DeepSeek API and failed there
    cache,            \* ResponseCache._cache: entries in OrderedDict order, oldest first
    stats,            \* ResponseCache._stats
    gen_pc,           \* position of the generate_response generator
    gen_after,        \* where the generator goes once its pending yields are consumed
    req,              \* arguments of the running generate_response call
    pending,          \* events the generator is about to yield, in order
    events,           \* events the consumer has received from this call
    response_text,    \* generate_response local: accumulated answer
    token_count,      \* generate_response local: fragments received
    cached_response,  \* generate_response local: result of response_cache.get
    llm_called,       \* this call has invoked deepseek_client.stream_chat
    requests,         \* generate_response calls made so far
    fresh_at_start,   \* history: the unexpired entry stored under this call's key when it started
    cache_before,     \* history: the cache as this call found it, before its lookup
    stream_outcome,   \* history: how the language-model stream of this call ended
    llm_calls,        \* history: deepseek_client.stream_chat invocations made by this call
    done_at,          \* history: time at which this call stored its answer in the cache
    query_counts,     \* RateLimiter._query_counts: per session, recorded timestamps
    active_streams,   \* RateLimiter._active_streams: per session
    rl_op,            \* the rate limiter operation of the latest step and its result
    admitted_log,     \* history: per session, times of the admitted check_query_limit
                      \* calls that were less than an hour old at the latest call
    cache_op,         \* the ResponseCache operation of the latest step, its result and
                      \* the keys it removed
    lru_order,        \* history: stored keys, least recently accessed first
    key_calls,        \* the two compute_key calls compared: arguments and
                      \* fingerprint of each, <<>> before the call is made
    retrieval,        \* the latest retrieve_context call: arguments and RetrievalResult
    chunking,         \* the latest chunk_document call: its input and its outcome
    chat,             \* send_message: position and locals of event_generator, and
                      \* the messages saved for the session
    tasks,            \* TaskManager._tasks: per task id, its TaskStatus
    processing,       \* per task id: position of its process_document_task
    voyage_api_key    \* settings.voyage_api_key

cbVars == <<circuit_breaker, call_pc, outcome, op_invoked, recorded, last_op,
            admitted_in, consec_failures, ho_successes, opened_at>>

clockVars == <<now, ticks>>

clientVars == <<provider_state, sc_result, provider_invoked, provider_failures>>

genCallVars == <<gen_pc, gen_after, req, pending, events, response_text,
                 token_count, cached_response, llm_called, requests, fresh_at_start, cache_before,
                 stream_outcome, llm_calls, done_at>>

genVars == <<cache, stats, genCallVars>>

rlVars == <<query_counts, active_streams, rl_op, admitted_log>>

cacheOpVars == <<cache_op, lru_order>>

keyVars == <<key_calls>>

retrVars == <<retrieval>>

chunkVars == <<chunking>>

apiVars == <<chat, tasks, processing, voyage_api_key>>

auxVars == <<rlVars, cacheOpVars, keyVars, retrVars, chunkVars, apiVars>>

vars == <<now, ticks, circuit_breaker, call_pc, outcome, op_invoked, recorded,
          last_op, admitted_in, consec_failures, ho_successes, opened_at,
          provider_state, sc_result, provider_invoked, provider_failures,
          cache, stats, gen_pc, gen_after, req, pending, events, response_text,
          token_count, cached_response, llm_called, requests, fresh_at_start, cache_before,
          stream_outcome, llm_calls, done_at, query_counts, active_streams, rl_op,
          admitted_log, cache_op, lru_order, key_calls, retrieval, chunking,
          chat, tasks, processing, voyage_api_key>>

\* ------------------------------------------------------------------------
\* CircuitBreaker
\* ------------------------------------------------------------------------
\* CircuitBreaker.__init__
CircuitBreakerInit ==
    [state |-> CLOSED, failure_count |-> 0, success_count |-> 0,
     last_failure_time |-> NoTime]

\* call_check with the recovery test written `>=`: admits at exactly the timeout
call_check_inclusive(b, t) ==
    IF b.state = OPEN
    THEN IF t - b.last_failure_time >= recovery_timeout
         THEN [cb |-> [b EXCEPT !.state = HALF_OPEN, !.success_count = 0],
               admitted |-> TRUE]
         ELSE [cb |-> b, admitted |-> FALSE]
    ELSE [cb |-> b, admitted |-> TRUE]

\* call_check that lets the call through after the timeout but forgets to
\* move the breaker to Half-Open
call_check_no_half_open(b, t) ==
    IF b.state = OPEN
    THEN IF t - b.last_failure_time > recovery_timeout
         THEN [cb |-> b, admitted |-> TRUE]
         ELSE [cb |-> b, admitted |-> FALSE]
    ELSE [cb |-> b, admitted |-> TRUE]

\* CircuitBreaker.call, lines 75-87: the state check made before the wrapped
\* operation is invoked.  admitted = FALSE is the CircuitBreakerError.
call_check(b, t) ==
    IF b.state = OPEN
    THEN IF t - b.last_failure_time > recovery_timeout
         THEN [cb |-> [b EXCEPT !.state = HALF_OPEN, !.success_count = 0],
               admitted |-> TRUE]
         ELSE [cb |-> b, admitted |-> FALSE]
    ELSE [cb |-> b, admitted |-> TRUE]

\* _on_success with the threshold test written `>`
on_success_strict(b) ==
    IF b.state = HALF_OPEN
    THEN IF b.success_count + 1 > success_threshold
         THEN [b EXCEPT !.state = CLOSED, !.failure_count = 0, !.success_count = 0]
         ELSE [b EXCEPT !.success_count = b.success_count + 1]
    ELSE IF b.state = CLOSED
         THEN [b EXCEPT !.failure_count = 0]
         ELSE b

\* _on_success whose second branch is a bare `else` that marks the breaker
\* healthy: a success recorded while Open closes it
on_success_else_closed(b) ==
    IF b.state = HALF_OPEN
    THEN IF b.success_count + 1 >= success_threshold
         THEN [b EXCEPT !.state = CLOSED, !.failure_count = 0, !.success_count = 0]
         ELSE [b EXCEPT !.success_count = b.success_count + 1]
    ELSE [b EXCEPT !.state = CLOSED, !.failure_count = 0]

\* CircuitBreaker._on_success
on_success(b) ==
    IF b.state = HALF_OPEN
    THEN IF b.success_count + 1 >= success_threshold
         THEN [b EXCEPT !.state = CLOSED, !.failure_count = 0, !.success_count = 0]
         ELSE [b EXCEPT !.success_count = b.success_count + 1]
    ELSE IF b.state = CLOSED
         THEN [b EXCEPT !.failure_count = 0]
         ELSE b

\* _on_failure with the threshold test written `>`
on_failure_strict(b, t) ==
    LET b1 == [b EXCEPT !.failure_count = b.failure_count + 1,
                        !.last_failure_time = t]
    IN  IF b1.state = HALF_OPEN
        THEN [b1 EXCEPT !.state = OPEN, !.success_count = 0]
        ELSE IF b1.failure_count > failure_threshold
             THEN [b1 EXCEPT !.state = OPEN]
             ELSE b1

\* _on_failure that stamps last_failure_time only on the Closed path
on_failure_stale_time(b, t) ==
    LET b1 == [b EXCEPT !.failure_count = b.failure_count + 1]
    IN  IF b1.state = HALF_OPEN
        THEN [b1 EXCEPT !.state = OPEN, !.success_count = 0]
        ELSE IF b1.failure_count >= failure_threshold
             THEN [b1 EXCEPT !.state = OPEN, !.last_failure_time = t]
             ELSE [b1 EXCEPT !.last_failure_time = t]

\* CircuitBreaker._on_failure
on_failure(b, t) ==
    LET b1 == [b EXCEPT !.failure_count = b.failure_count + 1,
                        !.last_failure_time = t]
    IN  IF b1.state = HALF_OPEN
        THEN [b1 EXCEPT !.state = OPEN, !.success_count = 0]
        ELSE IF b1.failure_count >= failure_threshold
             THEN [b1 EXCEPT !.state = OPEN]
             ELSE b1

\* call with the failure handler written as `finally`: it runs after a
\* success too
call_finish_finally(b, t, how) ==
    IF how = "return"
    THEN [cb |-> on_failure(on_success(b), t), recorded |-> <<"success", "failure">>]
    ELSE IF how = "raise"
         THEN [cb |-> on_failure(b, t), recorded |-> <<"failure">>]
         ELSE [cb |-> on_failure(b, t), recorded |-> <<"failure">>]

\* the try/except written `except BaseException`
call_finish_catch_all(b, t, how) ==
    IF how = "return"
    THEN [cb |-> on_success(b), recorded |-> <<"success">>]
    ELSE [cb |-> on_failure(b, t), recorded |-> <<"failure">>]

\* CircuitBreaker.call, lines 89-101: what the try/except records when the
\* awaited operation ends.  how is "return" (the await produced a result),
\* "raise" (it raised an Exception) or "cancel" (a BaseException such as
\* asyncio.CancelledError, which `except Exception` does not catch).
call_finish(b, t, how) ==
    IF how = "return"
    THEN [cb |-> on_success(b), recorded |-> <<"success">>]
    ELSE IF how = "raise"
         THEN [cb |-> on_failure(b, t), recorded |-> <<"failure">>]
         ELSE [cb |-> b, recorded |-> <<>>]

\* history bookkeeping shared by the steps that record an outcome
HistoryAfter(b, b2, rec) ==
    /\ consec_failures' =
          IF rec = <<>> THEN consec_failures
          ELSE IF rec[Len(rec)] = "success" THEN 0
          ELSE consec_failures + 1
    /\ ho_successes' =
          IF b.state = HALF_OPEN /\ rec # <<>> /\ rec[1] = "success"
          THEN ho_successes + 1
          ELSE ho_successes
    /\ opened_at' = IF b.state # OPEN /\ b2.state = OPEN THEN now ELSE opened_at

\* A caller enters CircuitBreaker.call: the check runs and, when admitted,
\* the wrapped operation is invoked and the caller waits at `await func(...)`.
Call(c) ==
    /\ call_pc[c] = "idle"
    /\ LET r == call_check(circuit_breaker, now)
       IN  /\ circuit_breaker' = r.cb
           /\ call_pc' = [call_pc EXCEPT ![c] = IF r.admitted THEN "awaiting" ELSE "idle"]
           /\ outcome' = IF r.admitted THEN "pending" ELSE "CircuitBreakerError"
           /\ op_invoked' = r.admitted
           /\ admitted_in' = [admitted_in EXCEPT ![c] =
                                 IF r.admitted THEN r.cb.state ELSE "none"]
           /\ last_op' = [op |-> "call", caller |-> c,
                          admitted_in |-> IF r.admitted THEN r.cb.state ELSE "none"]
           /\ ho_successes' = IF r.cb.state = HALF_OPEN /\ circuit_breaker.state # HALF_OPEN
                              THEN 0 ELSE ho_successes
    /\ recorded' = <<>>
    /\ UNCHANGED <<consec_failures, opened_at, clockVars, clientVars, genVars, auxVars>>

\* The awaited operation ends and the try/except of call records the outcome.
Finish(c, how) ==
    /\ call_pc[c] = "awaiting"
    /\ LET r == call_finish(circuit_breaker, now, how)
       IN  /\ circuit_breaker' = r.cb
           /\ recorded' = r.recorded
           /\ HistoryAfter(circuit_breaker, r.cb, r.recorded)
    /\ call_pc' = [call_pc EXCEPT ![c] = "idle"]
    /\ outcome' = CASE how = "return" -> "returned"
                     [] how = "raise" -> "raised"
                     [] OTHER -> "cancelled"
    /\ op_invoked' = TRUE
    /\ admitted_in' = [admitted_in EXCEPT ![c] = "none"]
    /\ last_op' = [op |-> how, caller |-> c, admitted_in |-> admitted_in[c]]
    /\ UNCHANGED <<clockVars, clientVars, genVars, auxVars>>

FuncReturns(c) == Finish(c, "return")

FuncRaises(c) == Finish(c, "raise")

FuncCancelled(c) == Finish(c, "cancel")

\* Time passes; no background timer touches the breaker or the cache.
Advance(steps, max) ==
    /\ ticks < max
    /\ \E d \in steps : now' = now + d
    /\ ticks' = ticks + 1
    /\ last_op' = [op |-> "tick", caller |-> 0, admitted_in |-> "none"]
    /\ outcome' = "none"
    /\ op_invoked' = FALSE
    /\ recorded' = <<>>
    /\ UNCHANGED <<circuit_breaker, call_pc,
                   admitted_in, consec_failures, ho_successes, opened_at, clientVars,
                   genVars, auxVars>>

Tick == Advance(TickSteps, MaxTicks)

CacheTick == Advance(CacheTickSteps, MaxCacheTicks)

Init ==
    /\ now = 0
    /\ ticks = 0
    /\ circuit_breaker = CircuitBreakerInit
    /\ call_pc = [c \in Callers |-> "idle"]
    /\ outcome = "none"
    /\ op_invoked = FALSE
    /\ recorded = <<>>
    /\ last_op = [op |-> "init", caller |-> 0, admitted_in |-> "none"]
    /\ admitted_in = [c \in Callers |-> "none"]
    /\ consec_failures = 0
    /\ ho_successes = 0
    /\ opened_at = NoTime
    /\ provider_state = "healthy"
    /\ sc_result = [c \in Callers |-> "none"]
    /\ provider_invoked = [c \in Callers |-> FALSE]
    /\ provider_failures = 0
    /\ cache = <<>>
    /\ stats = [hits |-> 0, misses |-> 0, total_queries |-> 0]
    /\ gen_pc = "idle"
    /\ gen_after = "idle"
    /\ req = [query |-> <<>>, selected_documents |-> <<>>, focus_context |-> <<>>,
              chunks |-> <<>>]
    /\ pending = <<>>
    /\ events = <<>>
    /\ response_text = <<>>
    /\ token_count = 0
    /\ cached_response = <<>>
    /\ llm_called = FALSE
    /\ requests = 0
    /\ fresh_at_start = <<>>
    /\ cache_before = <<>>
    /\ stream_outcome = "none"
    /\ llm_calls = 0
    /\ done_at = NoTime
    /\ query_counts = [s \in Sessions |-> <<>>]
    /\ active_streams = [s \in Sessions |-> 0]
    /\ rl_op = [op |-> "init", session |-> "none", result |-> "none"]
    /\ admitted_log = [s \in Sessions |-> <<>>]
    /\ cache_op = [op |-> "init", key |-> <<>>, result |-> <<>>, removed |-> {}]
    /\ lru_order = <<>>
    /\ key_calls = [i \in 1..2 |-> <<>>]
    /\ retrieval = [op |-> "init"]
    /\ chunking = [op |-> "init"]
    /\ chat = [pc |-> "idle", response_text |-> <<>>, interrupted |-> FALSE,
               engine |-> "none", resume |-> "none", last_event |-> "none",
               tokens |-> 0, ended_by |-> "none", sent |-> 0, saved_from |-> 0,
               messages |-> <<>>]
    /\ tasks = [t \in TaskIds |-> NoTask]
    /\ processing = [t \in TaskIds |-> [pc |-> "none", total |-> 0, error |-> ""]]
    /\ voyage_api_key = "unloaded"

Next ==
    \/ \E c \in Callers : Call(c)
    \/ \E c \in Callers : FuncReturns(c)
    \/ \E c \in Callers : FuncRaises(c)
    \/ \E c \in Callers : FuncCancelled(c)
    \/ Tick

Spec == Init /\ [][Next]_vars

\* ------------------------------------------------------------------------
\* DeepSeekClient
\* ------------------------------------------------------------------------
\* _stream_chat_internal contains `yield`: calling it runs none of its body
\* and returns an async generator object.
stream_chat_internal_call == "async_generator"

\* `await x` (circuit_breaker.py line 91): a coroutine is run to its result;
\* an async generator object is not awaitable and the await raises TypeError.
await_outcome(obj) ==
    IF obj = "coroutine" THEN "value" ELSE "TypeError"

\* DeepSeekClient.stream_chat, driven to its end by the consumer, with the
\* DeepSeek API in state p.  The body of _stream_chat_internal (the request to
\* the API) runs only if the generator object comes back from
\* circuit_breaker.call and is iterated at line 90.
stream_chat(b, t, p) ==
    LET chk == call_check(b, t)
        aw  == await_outcome(stream_chat_internal_call)
        fin == call_finish(chk.cb, t, IF aw = "value" THEN "return" ELSE "raise")
    IN  IF ~chk.admitted
        THEN [cb |-> chk.cb, result |-> "DeepSeekAPIError",
              admitted |-> FALSE, recorded |-> <<>>,
              provider_invoked |-> FALSE, provider_failed |-> FALSE]
        ELSE IF aw = "value"
             THEN [cb |-> fin.cb,
                   result |-> IF p = "failing" THEN "DeepSeekAPIError" ELSE "done",
                   admitted |-> TRUE, recorded |-> fin.recorded,
                   provider_invoked |-> TRUE, provider_failed |-> (p = "failing")]
             ELSE [cb |-> fin.cb, result |-> "TypeError",
                   admitted |-> TRUE, recorded |-> fin.recorded,
                   provider_invoked |-> FALSE, provider_failed |-> FALSE]

\* One consumer runs `async for chunk in client.stream_chat(messages)`.
\* Nothing in the path suspends before the await at line 91 raises, so the
\* whole call is one step.
StreamChat(c) ==
    /\ LET r == stream_chat(circuit_breaker, now, provider_state)
       IN  /\ circuit_breaker' = r.cb
           /\ sc_result' = [sc_result EXCEPT ![c] = r.result]
           /\ provider_invoked' = [provider_invoked EXCEPT ![c] = r.provider_invoked]
           /\ provider_failures' = provider_failures + (IF r.provider_failed THEN 1 ELSE 0)
           /\ recorded' = r.recorded
           /\ op_invoked' = r.admitted
           /\ outcome' = r.result
           /\ last_op' = [op |-> "stream_chat", caller |-> c,
                          admitted_in |->
                             IF r.admitted THEN call_check(circuit_breaker, now).cb.state
                             ELSE "none"]
           /\ ho_successes' =
                 IF circuit_breaker.state = OPEN /\ r.admitted THEN 0 ELSE ho_successes
           /\ consec_failures' =
                 IF r.recorded = <<>> THEN consec_failures
                 ELSE IF r.recorded[1] = "success" THEN 0 ELSE consec_failures + 1
           /\ opened_at' =
                 IF r.admitted /\ r.cb.state = OPEN THEN now ELSE opened_at
    /\ UNCHANGED <<call_pc, admitted_in, provider_state, clockVars, genVars, auxVars>>

\* The DeepSeek API goes down or comes back.
ProviderChanges ==
    /\ provider_state' = IF provider_state = "healthy" THEN "failing" ELSE "healthy"
    /\ last_op' = [op |-> "provider", caller |-> 0, admitted_in |-> "none"]
    /\ outcome' = "none"
    /\ op_invoked' = FALSE
    /\ recorded' = <<>>
    /\ UNCHANGED <<circuit_breaker, call_pc,
                   admitted_in, consec_failures, ho_successes, opened_at,
                   sc_result, provider_invoked, provider_failures, clockVars,
                   genVars, auxVars>>

NextClient ==
    \/ \E c \in Callers : StreamChat(c)
    \/ ProviderChanges
    \/ Tick

SpecClient == Init /\ [][NextClient]_vars

\* ------------------------------------------------------------------------
\* RateLimiter
\* ------------------------------------------------------------------------
\* seconds added to the clock by one step of time, on the scale of the
\* one-hour window: one further step of 1 reaches the hour exactly
RLTickSteps == {1, hour - 1}

RLTick == Advance(RLTickSteps, MaxRLTicks)

\* [ts for ts in self._query_counts[session_id] if ts > cutoff]
recent_queries(timestamps, t) ==
    SelectSeq(timestamps, LAMBDA ts : ts > t - hour)

\* check_query_limit with the limit test written `>`
check_query_limit_strict(timestamps, t) ==
    LET kept == recent_queries(timestamps, t)
    IN  IF Len(kept) > queries_per_hour
        THEN [timestamps |-> kept, result |-> FALSE]
        ELSE [timestamps |-> Append(kept, t), result |-> TRUE]

\* RateLimiter.check_query_limit on one session's timestamp list
check_query_limit(timestamps, t) ==
    LET kept == recent_queries(timestamps, t)
    IN  IF Len(kept) >= queries_per_hour
        THEN [timestamps |-> kept, result |-> FALSE]
        ELSE [timestamps |-> Append(kept, t), result |-> TRUE]

\* RateLimiter.check_stream_limit
check_stream_limit(n) == ~(n >= max_concurrent_streams)

\* RateLimiter.acquire_stream on one session's counter
acquire_stream(n) ==
    IF ~check_stream_limit(n)
    THEN [active |-> n, result |-> "RateLimitError"]
    ELSE [active |-> n + 1, result |-> "ok"]

\* release_stream without the `> 0` guard
release_stream_unguarded(n) == [active |-> n - 1, result |-> "ok"]

\* RateLimiter.release_stream on one session's counter
release_stream(n) ==
    IF n > 0 THEN [active |-> n - 1, result |-> "ok"]
    ELSE [active |-> n, result |-> "ok"]

\* One check_query_limit call.  The coroutine contains no await, so calls
\* that run concurrently on the event loop execute one after the other.
CheckQueryLimit(s) ==
    /\ LET r == check_query_limit(query_counts[s], now)
       IN  /\ query_counts' = [query_counts EXCEPT ![s] = r.timestamps]
           /\ rl_op' = [op |-> "check_query_limit", session |-> s, result |-> r.result]
           /\ admitted_log' = [admitted_log EXCEPT ![s] =
                                  LET in_window == SelectSeq(@, LAMBDA x : now - x < hour)
                                  IN  IF r.result THEN Append(in_window, now)
                                      ELSE in_window]
    /\ UNCHANGED <<active_streams, clockVars, cbVars, clientVars, genVars,
                   cacheOpVars, keyVars, retrVars, chunkVars, apiVars>>

\* One acquire_stream call.  The only await is on check_stream_limit, which
\* never suspends, so the test and the increment are one step.
AcquireStream(s) ==
    /\ LET r == acquire_stream(active_streams[s])
       IN  /\ active_streams' = [active_streams EXCEPT ![s] = r.active]
           /\ rl_op' = [op |-> "acquire_stream", session |-> s, result |-> r.result]
    /\ UNCHANGED <<query_counts, admitted_log, clockVars, cbVars, clientVars, genVars,
                   cacheOpVars, keyVars, retrVars, chunkVars, apiVars>>

\* One release_stream call.
ReleaseStream(s) ==
    /\ LET r == release_stream(active_streams[s])
       IN  /\ active_streams' = [active_streams EXCEPT ![s] = r.active]
           /\ rl_op' = [op |-> "release_stream", session |-> s, result |-> r.result]
    /\ UNCHANGED <<query_counts, admitted_log, clockVars, cbVars, clientVars, genVars,
                   cacheOpVars, keyVars, retrVars, chunkVars, apiVars>>

\* RateLimiter._cleanup_old_queries, run by the periodic background task.  A
\* session whose list becomes empty is deleted; the defaultdict gives it an
\* empty list again on the next access.
\* the sweep with every list emptied, whatever the age of its timestamps
cleanup_old_queries_all(counts, t) == [s \in Sessions |-> <<>>]

\* RateLimiter._cleanup_old_queries on the whole table; a session whose list
\* is empty stands for a key that is not in the defaultdict
cleanup_old_queries(counts, t) == [s \in Sessions |-> recent_queries(counts[s], t)]

CleanupOldQueries ==
    /\ query_counts' = cleanup_old_queries(query_counts, now)
    /\ rl_op' = [op |-> "cleanup", session |-> "none", result |-> "none"]
    /\ UNCHANGED <<active_streams, admitted_log, clockVars, cbVars, clientVars, genVars,
                   cacheOpVars, keyVars, retrVars, chunkVars, apiVars>>

NextRL ==
    \/ \E s \in Sessions : CheckQueryLimit(s)
    \/ \E s \in Sessions : AcquireStream(s)
    \/ \E s \in Sessions : ReleaseStream(s)
    \/ CleanupOldQueries
    \/ RLTick

SpecRL == Init /\ [][NextRL]_vars

\* ------------------------------------------------------------------------
\* Text.  A Python str is a sequence of one-character strings; an Optional
\* value is <<>> for None and <<v>> for v.
\* ------------------------------------------------------------------------
\* the characters the model uses, in code-point order
CharOrder == <<",", "0", "1", "2", "3", "4", "5", "6", "7", "8", "9", ":",
               "a", "b", "d", "e", "q">>

CharRank(ch) == CHOOSE i \in 1..Len(CharOrder) : CharOrder[i] = ch

\* Python's `<` on str
RECURSIVE StrLess(_, _)
StrLess(a, b) ==
    IF a = <<>> THEN b # <<>>
    ELSE IF b = <<>> THEN FALSE
    ELSE IF Head(a) = Head(b) THEN StrLess(Tail(a), Tail(b))
    ELSE CharRank(Head(a)) < CharRank(Head(b))

\* sorted(set(xs)) for a list of str
RECURSIVE SortSet(_)
SortSet(S) ==
    IF S = {} THEN <<>>
    ELSE LET m == CHOOSE x \in S : \A y \in S \ {x} : StrLess(x, y)
         IN  <<m>> \o SortSet(S \ {m})

sorted_set(xs) == SortSet({xs[i] : i \in 1..Len(xs)})

\* sep.join(xs)
RECURSIVE join(_, _)
join(sep, xs) ==
    IF xs = <<>> THEN <<>>
    ELSE IF Len(xs) = 1 THEN xs[1]
    ELSE xs[1] \o sep \o join(sep, Tail(xs))

\* str(n) for an int n >= 0
RECURSIVE DecStr(_)
DecStr(n) ==
    IF n < 10 THEN <<CharOrder[n + 2]>>
    ELSE DecStr(n \div 10) \o <<CharOrder[(n % 10) + 2]>>

\* ------------------------------------------------------------------------
\* ResponseCache
\* ------------------------------------------------------------------------
\* ResponseCache.compute_key.  The SHA-256 digest is taken to be collision
\* free, so the fingerprint is the hashed content string itself.
compute_key(query, document_ids, focus_context) ==
    LET focus_hash ==
            IF focus_context # <<>>
            THEN <<":">> \o DecStr(focus_context[1].start_char)
                 \o <<":">> \o DecStr(focus_context[1].end_char)
            ELSE <<>>
        normalized_docs == sorted_set(document_ids)
    IN  query \o <<":">> \o join(<<",">>, normalized_docs) \o focus_hash

CacheIndex(c, key) ==
    IF \E i \in 1..Len(c) : c[i].key = key
    THEN CHOOSE i \in 1..Len(c) : c[i].key = key
    ELSE 0

RemoveAt(c, i) == [j \in 1..(Len(c) - 1) |-> IF j < i THEN c[j] ELSE c[j + 1]]

\* get that reports an expired entry as absent but leaves it stored
cache_get_keep_expired(c, st, key, t) ==
    LET i   == CacheIndex(c, key)
        st1 == [st EXCEPT !.total_queries = st.total_queries + 1]
    IN  IF i = 0
        THEN [cache |-> c, stats |-> [st1 EXCEPT !.misses = st1.misses + 1],
              result |-> <<>>]
        ELSE IF t - c[i].created_at > ttl
             THEN [cache |-> c,
                   stats |-> [st1 EXCEPT !.misses = st1.misses + 1],
                   result |-> <<>>]
             ELSE LET e == [c[i] EXCEPT !.hit_count = c[i].hit_count + 1]
                  IN  [cache |-> Append(RemoveAt(c, i), e),
                       stats |-> [st1 EXCEPT !.hits = st1.hits + 1],
                       result |-> <<e>>]

\* ResponseCache.get with the expiry test written `>=`
cache_get_inclusive(c, st, key, t) ==
    LET i   == CacheIndex(c, key)
        st1 == [st EXCEPT !.total_queries = st.total_queries + 1]
    IN  IF i = 0
        THEN [cache |-> c, stats |-> [st1 EXCEPT !.misses = st1.misses + 1],
              result |-> <<>>]
        ELSE IF t - c[i].created_at >= ttl
             THEN [cache |-> RemoveAt(c, i),
                   stats |-> [st1 EXCEPT !.misses = st1.misses + 1],
                   result |-> <<>>]
             ELSE LET e == [c[i] EXCEPT !.hit_count = c[i].hit_count + 1]
                  IN  [cache |-> Append(RemoveAt(c, i), e),
                       stats |-> [st1 EXCEPT !.hits = st1.hits + 1],
                       result |-> <<e>>]

\* ResponseCache.get
cache_get(c, st, key, t) ==
    LET i   == CacheIndex(c, key)
        st1 == [st EXCEPT !.total_queries = st.total_queries + 1]
    IN  IF i = 0
        THEN [cache |-> c, stats |-> [st1 EXCEPT !.misses = st1.misses + 1],
              result |-> <<>>]
        ELSE IF t - c[i].created_at > ttl
             THEN [cache |-> RemoveAt(c, i),
                   stats |-> [st1 EXCEPT !.misses = st1.misses + 1],
                   result |-> <<>>]
             ELSE LET e == [c[i] EXCEPT !.hit_count = c[i].hit_count + 1]
                  IN  [cache |-> Append(RemoveAt(c, i), e),
                       stats |-> [st1 EXCEPT !.hits = st1.hits + 1],
                       result |-> <<e>>]

\* chunk.__dict__ of a RetrievedChunk
chunk_dict(ch) ==
    [chunk_id |-> ch.chunk_id, document_id |-> ch.document_id,
     content |-> ch.content, similarity |-> ch.similarity,
     metadata |-> ch.metadata]

\* set with the capacity test written `>`
cache_set_late_evict(c, key, text, source_chunks, tc, t) ==
    LET c1 == IF Len(c) > max_size THEN Tail(c) ELSE c
        e  == [key |-> key, response_text |-> text,
               source_chunks |-> [i \in 1..Len(source_chunks) |->
                                     chunk_dict(source_chunks[i])],
               token_count |-> tc, created_at |-> t, hit_count |-> 0]
        i  == CacheIndex(c1, key)
    IN  IF i = 0 THEN Append(c1, e) ELSE [c1 EXCEPT ![i] = e]

\* set that returns early for an empty answer
cache_set_skip_empty(c, key, text, source_chunks, tc, t) ==
    LET c1 == IF Len(c) >= max_size THEN Tail(c) ELSE c
        e  == [key |-> key, response_text |-> text,
               source_chunks |-> [i \in 1..Len(source_chunks) |->
                                     chunk_dict(source_chunks[i])],
               token_count |-> tc, created_at |-> t, hit_count |-> 0]
        i  == CacheIndex(c1, key)
    IN  IF text = <<>> THEN c
        ELSE IF i = 0 THEN Append(c1, e) ELSE [c1 EXCEPT ![i] = e]

\* ResponseCache.set.  popitem(last=False) drops the first entry; assigning
\* to a key that is present keeps its position in the OrderedDict.
cache_set(c, key, text, source_chunks, tc, t) ==
    LET c1 == IF Len(c) >= max_size THEN Tail(c) ELSE c
        e  == [key |-> key, response_text |-> text,
               source_chunks |-> [i \in 1..Len(source_chunks) |->
                                     chunk_dict(source_chunks[i])],
               token_count |-> tc, created_at |-> t, hit_count |-> 0]
        i  == CacheIndex(c1, key)
    IN  IF i = 0 THEN Append(c1, e) ELSE [c1 EXCEPT ![i] = e]

\* ResponseCache.clear
cache_clear(c) == [cache |-> <<>>, result |-> Len(c)]

\* `chunk.get("document_id") == document_id` for some chunk of the entry
references(e, document_id) ==
    \E i \in 1..Len(e.source_chunks) : e.source_chunks[i].document_id = document_id

\* invalidate_document that looks at the first source chunk only
invalidate_document_first_chunk(c, document_id) ==
    LET hit(e) == e.source_chunks # <<>> /\ e.source_chunks[1].document_id = document_id
        kept == SelectSeq(c, LAMBDA e : ~hit(e))
    IN  [cache |-> kept, result |-> Len(c) - Len(kept)]

\* ResponseCache.invalidate_document
invalidate_document(c, document_id) ==
    LET kept == SelectSeq(c, LAMBDA e : ~references(e, document_id))
    IN  [cache |-> kept, result |-> Len(c) - Len(kept)]

\* ------------------------------------------------------------------------
\* RAGService.generate_response
\* ------------------------------------------------------------------------
\* RAGService._calculate_cost, in units of 10^-9 USD
calculate_cost(prompt_tokens, completion_tokens, cached_tokens) ==
    (prompt_tokens - cached_tokens) * 280 + cached_tokens * 28
        + completion_tokens * 420

\* lines 336-349: the events replayed for a cached response
cached_events(cr) ==
    <<[event |-> "token", data |-> [content |-> cr.response_text]]>>
    \o [i \in 1..Len(cr.source_chunks) |->
           [event |-> "source", data |-> cr.source_chunks[i]]]
    \o <<[event |-> "done",
          data |-> [token_count |-> cr.token_count, cost_usd |-> 0, cached |-> TRUE]]>>

\* a token event that leaves the fragment out
token_event_blank(content) == [event |-> "token", data |-> [content |-> <<>>]]

\* lines 362-366: the event for one text fragment
token_event(content) == [event |-> "token", data |-> [content |-> content]]

\* lines 381-390: the source event of one retrieved chunk
source_event(ch) ==
    [event |-> "source",
     data |-> [chunk_id |-> ch.chunk_id, document_id |-> ch.document_id,
               similarity |-> ch.similarity,
               chunk_index |-> ch.metadata.chunk_index,
               start_char |-> ch.metadata.start_char,
               end_char |-> ch.metadata.end_char,
               token_count |-> ch.metadata.token_count]]

\* lines 380-400: what follows the provider's done chunk
done_events(chunks, tc, usage) ==
    [i \in 1..Len(chunks) |-> source_event(chunks[i])]
    \o <<[event |-> "done",
          data |-> [token_count |-> tc,
                    cost_usd |-> calculate_cost(usage.prompt_tokens,
                                                usage.completion_tokens,
                                                usage.cached_tokens),
                    cached |-> FALSE]]>>

\* an error event that never carries the accumulated text
partial_response_none(text) == <<>>

\* `response_text if response_text else None`
partial_response(text) == IF text # <<>> THEN <<text>> ELSE <<>>

\* the except clauses without the final `except Exception`
handle_exception_no_generic(kind, text) ==
    IF kind = "DeepSeekAPIError"
    THEN <<[event |-> "error",
            data |-> [error |-> "str(e)", partial_response |-> partial_response(text)]]>>
    ELSE IF kind = "TimeoutError"
    THEN <<[event |-> "error",
            data |-> [error |-> "Request timed out. Please try again.",
                      partial_response |-> partial_response(text)]]>>
    ELSE <<>>

\* lines 402-463: the three except clauses of the streaming loop
handle_exception(kind, text) ==
    IF kind = "DeepSeekAPIError"
    THEN <<[event |-> "error",
            data |-> [error |-> "str(e)", partial_response |-> partial_response(text)]]>>
    ELSE IF kind = "TimeoutError"
    THEN <<[event |-> "error",
            data |-> [error |-> "Request timed out. Please try again.",
                      partial_response |-> partial_response(text)]]>>
    ELSE <<[event |-> "error",
            data |-> [error |-> "An unexpected error occurred. Please try again.",
                      partial_response |-> partial_response(text)]]>>

\* --- inputs ---
doc_d == <<"d">>

doc_e == <<"e">>

chunk_1 ==
    [chunk_id |-> "c1", document_id |-> doc_d, content |-> <<"a">>, similarity |-> 90,
     metadata |-> [chunk_index |-> 0, start_char |-> 0, end_char |-> 5, token_count |-> 3]]

chunk_2 ==
    [chunk_id |-> "c2", document_id |-> doc_e, content |-> <<"b">>, similarity |-> 75,
     metadata |-> [chunk_index |-> 1, start_char |-> 4, end_char |-> 9, token_count |-> 2]]

focus_1 == [document_id |-> doc_d, start_char |-> 1, end_char |-> 12,
            surrounding_text |-> <<"a">>]

\* (query, RetrievalResult, focus_context) triples passed to generate_response
Requests ==
    {[query |-> <<"q">>, selected_documents |-> <<doc_d>>, focus_context |-> <<>>,
      chunks |-> <<chunk_1>>],
     [query |-> <<"q">>, selected_documents |-> <<doc_d, doc_e>>, focus_context |-> <<>>,
      chunks |-> <<chunk_1, chunk_2>>],
     [query |-> <<"q">>, selected_documents |-> <<doc_e, doc_d, doc_e>>,
      focus_context |-> <<>>, chunks |-> <<chunk_2, chunk_1>>],
     [query |-> <<"q">>, selected_documents |-> <<doc_d>>, focus_context |-> <<focus_1>>,
      chunks |-> <<chunk_1>>]}

\* the i-th text fragment the language-model stream delivers
Fragment(i) == IF i % 2 = 1 THEN <<"a">> ELSE <<"b">>

\* usage figures of the provider's done chunk
Usages == {[prompt_tokens |-> 10, completion_tokens |-> 2, cached_tokens |-> 4]}

\* exceptions stream_chat can raise into the loop
StreamErrors == {"DeepSeekAPIError", "TimeoutError", "Exception"}

Emit(pend, after) ==
    /\ pending' = pend
    /\ gen_pc' = IF pend = <<>> THEN after ELSE "yielding"
    /\ gen_after' = after

\* The consumer starts a generate_response call: lines 330-357, up to the
\* first yield (cache hit) or the first wait for the stream (cache miss).
GenStart(r) ==
    /\ gen_pc \in {"idle", "finished", "cancelled"}
    /\ requests < MaxRequests
    /\ LET cache_key == compute_key(r.query, r.selected_documents, r.focus_context)
           g == cache_get(cache, stats, cache_key, now)
       IN  /\ cache' = g.cache
           /\ stats' = g.stats
           /\ cached_response' = g.result
           /\ IF g.result # <<>>
              THEN /\ Emit(cached_events(g.result[1]), "finished")
                   /\ llm_called' = FALSE
                   /\ llm_calls' = 0
              ELSE /\ Emit(<<>>, "awaiting_chunk")
                   /\ llm_called' = TRUE
                   /\ llm_calls' = 1
    /\ stream_outcome' = "none"
    /\ done_at' = NoTime
    /\ req' = r
    /\ events' = <<>>
    /\ response_text' = <<>>
    /\ token_count' = 0
    /\ requests' = requests + 1
    /\ cache_before' = cache
    /\ fresh_at_start' =
          LET k == compute_key(r.query, r.selected_documents, r.focus_context)
              live == {i \in 1..Len(cache) :
                          cache[i].key = k /\ now - cache[i].created_at <= ttl}
          IN  IF live = {} THEN <<>> ELSE <<cache[CHOOSE i \in live : TRUE]>>
    /\ UNCHANGED <<clockVars, cbVars, clientVars, auxVars>>

\* The consumer takes the next event the generator yields.
Yield ==
    /\ gen_pc = "yielding"
    /\ events' = Append(events, Head(pending))
    /\ Emit(Tail(pending), gen_after)
    /\ UNCHANGED <<cache, stats, req, response_text, token_count, cached_response,
                   llm_called, requests, fresh_at_start, cache_before, stream_outcome, llm_calls,
                   done_at, clockVars, cbVars, clientVars, auxVars>>

\* lines 362-366: the stream delivers a text fragment.
ChunkToken ==
    /\ gen_pc = "awaiting_chunk"
    /\ token_count < MaxFragments
    /\ LET content == Fragment(token_count + 1)
       IN  /\ response_text' = response_text \o content
           /\ Emit(<<token_event(content)>>, "awaiting_chunk")
    /\ token_count' = token_count + 1
    /\ UNCHANGED <<cache, stats, req, events, cached_response, llm_called, requests,
                   fresh_at_start, cache_before, stream_outcome, llm_calls, done_at, clockVars, cbVars, clientVars, auxVars>>

\* lines 367-400: the stream delivers its done chunk and then ends.
ChunkDone(usage) ==
    /\ gen_pc = "awaiting_chunk"
    /\ cache' = cache_set(cache,
                          compute_key(req.query, req.selected_documents, req.focus_context),
                          response_text, req.chunks, token_count, now)
    /\ Emit(done_events(req.chunks, token_count, usage), "finished")
    /\ stream_outcome' = "done"
    /\ done_at' = now
    /\ UNCHANGED <<stats, req, events, response_text, token_count, cached_response,
                   llm_called, requests, fresh_at_start, cache_before, llm_calls,
                   clockVars, cbVars, clientVars, auxVars>>

\* except clauses that store the text relayed so far under the call's key
cache_after_exception_store_partial(c, r, text, tc, t) ==
    cache_set(c, compute_key(r.query, r.selected_documents, r.focus_context),
              text, r.chunks, tc, t)

\* the cache after one of the except clauses of generate_response has run:
\* none of them calls the cache
cache_after_exception(c, r, text, tc, t) == c

\* lines 402-463: stream_chat raises into the loop.
StreamRaises(kind) ==
    /\ gen_pc = "awaiting_chunk"
    /\ Emit(handle_exception(kind, response_text), "finished")
    /\ stream_outcome' = kind
    /\ cache' = cache_after_exception(cache, req, response_text, token_count, now)
    /\ UNCHANGED <<stats, req, events, response_text, token_count,
                   cached_response, llm_called, requests, fresh_at_start, cache_before, llm_calls,
                   done_at,
                   clockVars, cbVars, clientVars, auxVars>>

\* The consumer closes the generator: GeneratorExit / CancelledError is
\* raised at the point where it is suspended and no except clause catches it.
GenCancelled ==
    /\ gen_pc \in {"yielding", "awaiting_chunk"}
    /\ gen_pc' = "cancelled"
    /\ pending' = <<>>
    /\ UNCHANGED <<cache, stats, gen_after, req, events, response_text, token_count,
                   cached_response, llm_called, requests, fresh_at_start, cache_before,
                   stream_outcome, llm_calls, done_at,
                   clockVars, cbVars, clientVars, auxVars>>

NextGen ==
    \/ \E r \in Requests : GenStart(r)
    \/ Yield
    \/ ChunkToken
    \/ \E usage \in Usages : ChunkDone(usage)
    \/ \E kind \in StreamErrors : StreamRaises(kind)
    \/ GenCancelled
    \/ CacheTick

SpecGen == Init /\ [][NextGen]_vars

\* generate_response with its scheduling: the consumer keeps taking the events
\* the generator has ready and time keeps passing; nothing obliges the
\* language-model stream to deliver, fail or end, nor the consumer to cancel.
SpecGenLive == SpecGen /\ WF_vars(Yield) /\ WF_vars(CacheTick)

\* ------------------------------------------------------------------------
\* ResponseCache driven directly through its interface
\* ------------------------------------------------------------------------
\* documents named in invalidate_document calls
Documents == {doc_d, doc_e}

\* (fingerprint, retrieved chunks) pairs handed to set; get is called with the
\* same fingerprints
StoredAnswers ==
    {[key |-> <<"1">>, source_chunks |-> <<chunk_1, chunk_2>>],
     [key |-> <<"2">>, source_chunks |-> <<chunk_1>>],
     [key |-> <<"3">>, source_chunks |-> <<chunk_2>>],
     [key |-> <<"4">>, source_chunks |-> <<>>]}

CacheKeys == {a.key : a \in StoredAnswers}

\* the keys of the stored entries
KeysOf(c) == {c[i].key : i \in 1..Len(c)}

\* history: key moved to the most-recently-accessed end of order
Touch(order, key) == Append(SelectSeq(order, LAMBDA k : k # key), key)

\* One ResponseCache.set call.
CacheSet(key, source_chunks) ==
    /\ cache' = cache_set(cache, key, <<"a">>, source_chunks, 1, now)
    /\ cache_op' = [op |-> "set", key |-> key, result |-> <<>>,
                    removed |-> KeysOf(cache) \ KeysOf(cache')]
    /\ lru_order' = SelectSeq(Touch(lru_order, key), LAMBDA k : k \in KeysOf(cache'))
    /\ UNCHANGED <<stats, genCallVars, clockVars, cbVars, clientVars, rlVars, keyVars,
                   retrVars, chunkVars, apiVars>>

\* One ResponseCache.get call.
CacheGet(key) ==
    /\ stats.total_queries < MaxGets
    /\ LET g == cache_get(cache, stats, key, now)
       IN  /\ cache' = g.cache
           /\ stats' = g.stats
           /\ cache_op' = [op |-> "get", key |-> key, result |-> g.result,
                           removed |-> KeysOf(cache) \ KeysOf(g.cache)]
           /\ lru_order' =
                 SelectSeq(IF g.result # <<>> THEN Touch(lru_order, key) ELSE lru_order,
                           LAMBDA k : k \in KeysOf(g.cache))
    /\ UNCHANGED <<genCallVars, clockVars, cbVars, clientVars, rlVars,
                   keyVars, retrVars, chunkVars, apiVars>>

\* One ResponseCache.invalidate_document call.
InvalidateDocument(document_id) ==
    /\ LET r == invalidate_document(cache, document_id)
       IN  /\ cache' = r.cache
           /\ cache_op' = [op |-> "invalidate_document", key |-> document_id,
                           result |-> r.result,
                           removed |-> KeysOf(cache) \ KeysOf(r.cache)]
           /\ lru_order' = SelectSeq(lru_order, LAMBDA k : k \in KeysOf(r.cache))
    /\ UNCHANGED <<stats, genCallVars, clockVars, cbVars, clientVars, rlVars, keyVars,
                   retrVars, chunkVars, apiVars>>

\* One ResponseCache.clear call.
CacheClear ==
    /\ cache' = cache_clear(cache).cache
    /\ cache_op' = [op |-> "clear", key |-> <<>>, result |-> cache_clear(cache).result,
                    removed |-> KeysOf(cache)]
    /\ lru_order' = <<>>
    /\ UNCHANGED <<stats, genCallVars, clockVars, cbVars, clientVars,
                   rlVars, keyVars, retrVars, chunkVars, apiVars>>

\* the cache at one instant: enough fingerprints to overfill it
NextCache ==
    \/ \E a \in StoredAnswers : CacheSet(a.key, a.source_chunks)
    \/ \E key \in CacheKeys : CacheGet(key)
    \/ \E document_id \in Documents : InvalidateDocument(document_id)
    \/ CacheClear

SpecCache == Init /\ [][NextCache]_vars

\* the answers stored while the clock runs
AgingAnswers == {a \in StoredAnswers : a.key \in {<<"1">>, <<"3">>}}

\* the cache over time: entries age past the time-to-live
NextCacheTTL ==
    \/ \E a \in AgingAnswers : CacheSet(a.key, a.source_chunks)
    \/ \E a \in AgingAnswers : CacheGet(a.key)
    \/ \E document_id \in Documents : InvalidateDocument(document_id)
    \/ CacheClear
    \/ CacheTick

SpecCacheTTL == Init /\ [][NextCacheTTL]_vars

\* ------------------------------------------------------------------------
\* Circuit breaker properties (checked under Spec)
\* ------------------------------------------------------------------------
Transitions ==
    {<<CLOSED, OPEN>>, <<OPEN, HALF_OPEN>>, <<HALF_OPEN, CLOSED>>, <<HALF_OPEN, OPEN>>}

Elapsed == now - circuit_breaker.last_failure_time

\* C1: the breaker leaves Closed for Open on the failure that makes the run
\* of consecutive failures exactly failure_threshold long, never earlier and
\* never later; a success recorded while Closed sets failure_count to 0.
C1_OpensAtThreshold ==
    [][ /\ (circuit_breaker'.state = CLOSED =>
               /\ consec_failures' < failure_threshold
               /\ circuit_breaker'.failure_count = consec_failures')
        /\ (circuit_breaker.state = CLOSED /\ circuit_breaker'.state = OPEN =>
               /\ last_op'.op = "raise"
               /\ consec_failures' = failure_threshold)
        /\ (circuit_breaker.state = CLOSED /\ last_op'.op = "return" =>
               circuit_breaker'.failure_count = 0)
      ]_vars

C1_Witness ==
    /\ circuit_breaker.state = OPEN
    /\ last_op.op = "raise"
    /\ circuit_breaker.failure_count = failure_threshold
    /\ consec_failures = failure_threshold

\* C2: a call made while Open and within recovery_timeout of the last failure
\* ends with CircuitBreakerError, does not invoke the wrapped operation and
\* leaves the breaker's four fields as they were.
C2_OpenRejects ==
    [][ \A c \in Callers :
          (/\ last_op'.op = "call"
           /\ last_op'.caller = c
           /\ circuit_breaker.state = OPEN
           /\ Elapsed <= recovery_timeout)
          => /\ circuit_breaker' = circuit_breaker
             /\ outcome' = "CircuitBreakerError"
             /\ ~op_invoked'
             /\ call_pc'[c] = "idle"
             /\ recorded' = <<>>
      ]_vars

C2_Witness ==
    /\ circuit_breaker.state = OPEN
    /\ Elapsed = recovery_timeout
    /\ last_op.op = "call"
    /\ outcome = "CircuitBreakerError"
    /\ ~op_invoked

\* C3: the breaker leaves Open only in a call step made after the recovery
\* timeout has elapsed, and that step sets Half-Open with success_count 0 and
\* invokes the wrapped operation; the passing of time alone changes nothing.
C3_LazyHalfOpen ==
    [][ /\ (circuit_breaker.state = OPEN /\ circuit_breaker'.state # OPEN =>
               /\ last_op'.op = "call"
               /\ Elapsed > recovery_timeout)
        /\ (circuit_breaker.state = OPEN /\ last_op'.op = "call"
              /\ Elapsed > recovery_timeout =>
               /\ circuit_breaker'.state = HALF_OPEN
               /\ circuit_breaker'.success_count = 0
               /\ op_invoked'
               /\ call_pc'[last_op'.caller] = "awaiting")
        /\ (last_op'.op = "tick" => circuit_breaker' = circuit_breaker)
      ]_vars

C3_Witness ==
    /\ circuit_breaker.state = HALF_OPEN
    /\ last_op.op = "call"
    /\ last_op.admitted_in = HALF_OPEN
    /\ op_invoked
    /\ Elapsed > recovery_timeout

\* C4: the breaker goes from Half-Open to Closed on the success that makes
\* success_threshold successes since it entered Half-Open, with both counters
\* 0 afterwards; with fewer successes it is still Half-Open.
C4_ClosesAtSuccessThreshold ==
    [][ /\ (circuit_breaker'.state = HALF_OPEN =>
               /\ ho_successes' < success_threshold
               /\ circuit_breaker'.success_count = ho_successes')
        /\ (circuit_breaker.state = HALF_OPEN /\ circuit_breaker'.state = CLOSED =>
               /\ last_op'.op = "return"
               /\ ho_successes' = success_threshold
               /\ circuit_breaker'.failure_count = 0
               /\ circuit_breaker'.success_count = 0)
        /\ (circuit_breaker.state = HALF_OPEN /\ last_op'.op = "return"
              /\ ho_successes + 1 = success_threshold =>
               circuit_breaker'.state = CLOSED)
      ]_vars

C4_Witness ==
    /\ circuit_breaker.state = CLOSED
    /\ last_op.op = "return"
    /\ ho_successes = success_threshold
    /\ opened_at # NoTime

\* C5: a failure recorded while Half-Open sets Open with success_count 0 and
\* restarts the recovery window: the breaker is not left again before more
\* than recovery_timeout has passed since it was reopened.
C5_HalfOpenFailureReopens ==
    [][ /\ (circuit_breaker.state = HALF_OPEN /\ last_op'.op = "raise" =>
               /\ circuit_breaker'.state = OPEN
               /\ circuit_breaker'.success_count = 0
               /\ circuit_breaker'.last_failure_time = now)
        /\ (circuit_breaker.state = OPEN /\ circuit_breaker'.state # OPEN =>
               now - opened_at > recovery_timeout)
      ]_vars

C5_Witness ==
    /\ circuit_breaker.state = OPEN
    /\ last_op.op = "raise"
    /\ last_op.admitted_in = HALF_OPEN
    /\ opened_at = now
    /\ circuit_breaker.failure_count > failure_threshold

\* C6: whatever the interleaving of concurrent calls, every change of the
\* breaker's state is one of Closed->Open, Open->Half-Open, Half-Open->Closed,
\* Half-Open->Open.
C6_OnlyLegalTransitions ==
    [][ \/ circuit_breaker'.state = circuit_breaker.state
        \/ <<circuit_breaker.state, circuit_breaker'.state>> \in Transitions
      ]_vars

\* a call admitted while Closed has just returned while the breaker was
\* Half-Open and closed it
C6_Witness ==
    /\ last_op.op = "return"
    /\ last_op.admitted_in = CLOSED
    /\ circuit_breaker.state = CLOSED
    /\ ho_successes = success_threshold
    /\ opened_at # NoTime

\* C7: a call whose wrapped operation has returned recorded exactly one
\* success, one whose operation raised recorded exactly one failure, and a
\* rejected call recorded nothing.
C7_OneOutcomePerCall ==
    /\ (outcome = "returned" => recorded = <<"success">>)
    /\ (outcome = "raised" => recorded = <<"failure">>)
    /\ (outcome = "CircuitBreakerError" => recorded = <<>>)

\* a call admitted while Half-Open has failed and recorded its one failure
C7_Witness ==
    /\ outcome = "raised"
    /\ op_invoked
    /\ last_op.admitted_in = HALF_OPEN
    /\ recorded = <<"failure">>

Terminal == {"done", "error"}

\* C9: in every event stream of generate_response a done or error event is
\* followed by nothing, and a stream that has run to its end holds exactly
\* one such event, as its last event.
C9_OneTerminalEventLast ==
    LET n == Len(events)
    IN  /\ \A i \in 1..n : events[i].event \in Terminal => i = n
        /\ (gen_pc = "finished" => n > 0 /\ events[n].event \in Terminal)
        /\ (n > 0 /\ events[n].event \in Terminal => gen_pc = "finished")

\* a stream that relayed a fragment and then failed
C9_Witness ==
    /\ gen_pc = "finished"
    /\ Len(events) = 2
    /\ events[1].event = "token"
    /\ events[2].event = "error"

\* C10: when an unexpired entry is stored under the call's fingerprint, the
\* call never invokes the language-model client and its complete stream is
\* one token event with the entry's full text, one source event per stored
\* source in order, and one done event with cached = TRUE and cost_usd = 0.
C10_CacheHitReplay ==
    fresh_at_start # <<>> =>
       LET e == fresh_at_start[1]
           k == Len(e.source_chunks)
       IN  /\ ~llm_called
           /\ Len(events) <= k + 2
           /\ (gen_pc = "finished" => Len(events) = k + 2)
           /\ (Len(events) >= 1 =>
                  events[1] = [event |-> "token", data |-> [content |-> e.response_text]])
           /\ \A i \in 1..k :
                 Len(events) >= i + 1 =>
                    events[i + 1] = [event |-> "source", data |-> e.source_chunks[i]]
           /\ (Len(events) = k + 2 =>
                  events[k + 2] =
                     [event |-> "done",
                      data |-> [token_count |-> e.token_count, cost_usd |-> 0,
                                cached |-> TRUE]])

\* a hit on an answer stored by a call that listed the documents in another order
C10_Witness ==
    /\ gen_pc = "finished"
    /\ fresh_at_start # <<>>
    /\ req.selected_documents = <<doc_e, doc_d, doc_e>>
    /\ fresh_at_start[1].response_text = <<"a", "b">>
    /\ Len(fresh_at_start[1].source_chunks) = 2
    /\ fresh_at_start[1].source_chunks[1].chunk_id = "c1"
    /\ Len(events) = 4
    /\ now - fresh_at_start[1].created_at = ttl

\* the text relayed by the token events among evs, in order
RECURSIVE RelayedText(_)
RelayedText(evs) ==
    IF evs = <<>> THEN <<>>
    ELSE (IF Head(evs).event = "token" THEN Head(evs).data.content ELSE <<>>)
         \o RelayedText(Tail(evs))

\* an Optional[str] read as text: None is the empty text
TextOf(opt) == IF opt = <<>> THEN <<>> ELSE opt[1]

\* C11: when the language-model stream has failed after k fragments were
\* relayed, the call has invoked the language-model client exactly once, the
\* k token events are followed by exactly one error event whose partial text is
\* the concatenation of the k relayed fragments, and nothing follows it.
C11_SingleErrorWithPartial ==
    stream_outcome \in StreamErrors =>
       LET k == token_count
           tokens == SubSeq(events, 1, k)
       IN  /\ llm_calls = 1
           /\ gen_pc \in {"yielding", "finished", "cancelled"}
           /\ Len(events) \in {k, k + 1}
           /\ \A i \in 1..k : events[i].event = "token"
           /\ (gen_pc = "yielding" =>
                  /\ Len(events) = k
                  /\ Len(pending) = 1
                  /\ pending[1].event = "error"
                  /\ TextOf(pending[1].data.partial_response) = RelayedText(tokens))
           /\ (gen_pc = "finished" => Len(events) = k + 1)
           /\ (Len(events) = k + 1 =>
                  /\ events[k + 1].event = "error"
                  /\ TextOf(events[k + 1].data.partial_response) = RelayedText(tokens)
                  /\ pending = <<>>)

\* the provider failed after two fragments and the error event was delivered
C11_Witness ==
    /\ stream_outcome = "DeepSeekAPIError"
    /\ gen_pc = "finished"
    /\ Len(events) = 3
    /\ events[3].event = "error"
    /\ events[3].data.partial_response = <<(<<"a", "b">>)>>

\* two calls name the same query, the same set of searched documents and the
\* same focus offsets
SameRequest(r1, r2) ==
    /\ r1.query = r2.query
    /\ {r1.selected_documents[i] : i \in 1..Len(r1.selected_documents)}
          = {r2.selected_documents[i] : i \in 1..Len(r2.selected_documents)}
    /\ (r1.focus_context = <<>>) = (r2.focus_context = <<>>)
    /\ (r1.focus_context # <<>> =>
          /\ r1.focus_context[1].start_char = r2.focus_context[1].start_char
          /\ r1.focus_context[1].end_char = r2.focus_context[1].end_char)

\* C12: the step in which the stream completes on a cache miss stores the full
\* relayed answer and the retrieved chunks under the request's fingerprint and
\* queues one source event per retrieved chunk followed by done with
\* cached = FALSE; a call that follows with the same query, searched documents
\* and focus before the entry has expired does not invoke the language-model
\* client and replays the stored answer.
C12_StoreThenServe ==
    [][ /\ (stream_outcome = "none" /\ stream_outcome' = "done" =>
               LET key == compute_key(req.query, req.selected_documents, req.focus_context)
                   i == CacheIndex(cache', key)
                   n == Len(req.chunks)
               IN  /\ i # 0
                   /\ cache'[i].response_text = RelayedText(events)
                   /\ cache'[i].source_chunks = [j \in 1..n |-> chunk_dict(req.chunks[j])]
                   /\ Len(cache') <= max_size
                   /\ Len(pending') = n + 1
                   /\ \A j \in 1..n :
                         /\ pending'[j].event = "source"
                         /\ pending'[j].data.chunk_id = req.chunks[j].chunk_id
                   /\ pending'[n + 1].event = "done"
                   /\ pending'[n + 1].data.cached = FALSE)
        /\ (/\ stream_outcome = "done"
            /\ requests' = requests + 1
            /\ SameRequest(req, req')
            /\ now - done_at <= ttl
            => /\ llm_calls' = 0
               /\ Len(pending') = Len(req.chunks) + 2
               /\ pending'[1] = token_event(response_text)
               /\ \A j \in 1..Len(req.chunks) :
                     /\ pending'[j + 1].event = "source"
                     /\ pending'[j + 1].data.chunk_id = req.chunks[j].chunk_id
               /\ pending'[Len(pending')].event = "done"
               /\ pending'[Len(pending')].data.cached = TRUE)
      ]_vars

\* a call has just been served from the entry its predecessor stored for the
\* same documents listed in another order
C12_Witness ==
    /\ requests = 2
    /\ gen_pc = "yielding"
    /\ events = <<>>
    /\ llm_calls = 0
    /\ req.selected_documents = <<doc_d, doc_e>>
    /\ cached_response # <<>>
    /\ cached_response[1].response_text = <<"a">>
    /\ cached_response[1].source_chunks[1].chunk_id = "c2"
    /\ cached_response[1].created_at = now

\* ------------------------------------------------------------------------
\* RateLimiter properties (checked under SpecRL)
\* ------------------------------------------------------------------------
\* the step is a rate limiter call: every step but the passing of time
\* records its operation in rl_op
RLCallStep == ticks' = ticks

\* admitted calls of session s made less than one hour before time t
AdmittedInWindow(s, t) ==
    Cardinality({i \in 1..Len(admitted_log[s]) : t - admitted_log[s][i] < hour})

\* C13: a check_query_limit call returns true exactly when fewer than
\* queries_per_hour calls of the session were admitted during the hour before
\* it; a rejected call leaves the recorded timestamps as they were and an
\* admitted call appends the current time; hence when queries_per_hour calls
\* are recorded and only the oldest is an hour old, exactly one further call
\* is admitted.
C13_SlidingWindow ==
    [][ \A s \in Sessions :
          (RLCallStep /\ rl_op'.op = "check_query_limit" /\ rl_op'.session = s) =>
             /\ rl_op'.result = (AdmittedInWindow(s, now) < queries_per_hour)
             /\ (~rl_op'.result => query_counts'[s] = query_counts[s])
             /\ (rl_op'.result =>
                    /\ query_counts'[s][Len(query_counts'[s])] = now
                    /\ Len(query_counts'[s]) <= queries_per_hour)
      ]_vars

\* a session was full, its oldest query aged to exactly one hour, one call
\* was admitted and the next one has just been rejected
C13_Witness ==
    \E s \in Sessions :
       /\ rl_op = [op |-> "check_query_limit", session |-> s, result |-> FALSE]
       /\ now = hour
       /\ Len(admitted_log[s]) = queries_per_hour
       /\ now - admitted_log[s][1] = hour - 1
       /\ admitted_log[s][Len(admitted_log[s])] = now

\* C14: every session's active-stream counter stays within
\* 0..max_concurrent_streams; acquire_stream at the cap raises RateLimitError
\* and release_stream at 0 raises nothing, both leaving the counter unchanged.
C14_StreamCounterBounds ==
    [][ \A s \in Sessions :
          /\ active_streams'[s] \in 0..max_concurrent_streams
          /\ (RLCallStep /\ rl_op'.op = "acquire_stream" /\ rl_op'.session = s
                /\ active_streams[s] = max_concurrent_streams =>
                 /\ rl_op'.result = "RateLimitError"
                 /\ active_streams'[s] = active_streams[s])
          /\ (RLCallStep /\ rl_op'.op = "acquire_stream" /\ rl_op'.session = s
                /\ active_streams[s] < max_concurrent_streams =>
                 /\ rl_op'.result = "ok"
                 /\ active_streams'[s] = active_streams[s] + 1)
          /\ (RLCallStep /\ rl_op'.op = "release_stream" /\ rl_op'.session = s
                /\ active_streams[s] = 0 =>
                 /\ rl_op'.result = "ok"
                 /\ active_streams'[s] = 0)
      ]_vars

\* one session is at the cap while a release on the other, already at 0, has
\* just returned
C14_Witness ==
    /\ rl_op = [op |-> "release_stream", session |-> "s2", result |-> "ok"]
    /\ active_streams["s2"] = 0
    /\ active_streams["s1"] = max_concurrent_streams

\* ------------------------------------------------------------------------
\* ResponseCache.compute_key on its own
\* ------------------------------------------------------------------------
\* query texts
KeyQueries == {<<"q">>, <<"a">>}

\* document ids: compute_key takes any List[str]
KeyDocIds == {<<"d">>, <<"e">>, <<"d", ":", "1", ":", "2">>}

\* document_ids lists of length 0..MaxDocs
RECURSIVE DocLists(_)
DocLists(n) ==
    IF n = 0 THEN {<<>>}
    ELSE DocLists(n - 1)
         \cup {Append(l, d) : l \in {x \in DocLists(n - 1) : Len(x) = n - 1},
                              d \in KeyDocIds}

\* focus contexts: None, or a dict with start_char and end_char
KeyFocuses ==
    {<<>>,
     <<[document_id |-> <<"d">>, start_char |-> 1, end_char |-> 2,
        surrounding_text |-> <<"a">>]>>,
     <<[document_id |-> <<"d">>, start_char |-> 1, end_char |-> 12,
        surrounding_text |-> <<"a">>]>>}

\* One compute_key call; its arguments and result are kept in slot i, the
\* first call in slot 1 and the second in slot 2.
ComputeKey(i, query, document_ids, focus_context) ==
    /\ key_calls[i] = <<>>
    /\ (i = 1 \/ key_calls[1] # <<>>)
    /\ key_calls' = [key_calls EXCEPT ![i] =
                        <<[query |-> query, document_ids |-> document_ids,
                           focus_context |-> focus_context,
                           key |-> compute_key(query, document_ids, focus_context)]>>]
    /\ UNCHANGED <<clockVars, cbVars, clientVars, genVars, rlVars, cacheOpVars,
                   retrVars, chunkVars, apiVars>>

NextKey ==
    \E i \in 1..2, query \in KeyQueries, document_ids \in DocLists(MaxDocs),
       focus_context \in KeyFocuses :
          ComputeKey(i, query, document_ids, focus_context)

SpecKey == Init /\ [][NextKey]_vars

\* the start and end offsets of a focus context, <<>> for None
FocusOffsets(focus_context) ==
    IF focus_context = <<>> THEN <<>>
    ELSE <<focus_context[1].start_char, focus_context[1].end_char>>

\* C19: two compute_key calls with the same query text, the same set of
\* document ids and the same focus offsets return the same fingerprint, and
\* two calls that differ in query text or in focus offsets (present versus
\* absent included) return different fingerprints.
C19_KeyEqualIffSameInputs ==
    (key_calls[1] # <<>> /\ key_calls[2] # <<>>) =>
       LET a == key_calls[1][1]
           b == key_calls[2][1]
           docs(x) == {x.document_ids[i] : i \in 1..Len(x.document_ids)}
       IN  /\ (/\ a.query = b.query
               /\ docs(a) = docs(b)
               /\ FocusOffsets(a.focus_context) = FocusOffsets(b.focus_context)
               => a.key = b.key)
           /\ (\/ a.query # b.query
               \/ FocusOffsets(a.focus_context) # FocusOffsets(b.focus_context)
               => a.key # b.key)

\* ------------------------------------------------------------------------
\* RAGService.retrieve_context
\* ------------------------------------------------------------------------
\* Similarities and distances are in hundredths: 70 stands for 0.7.

\* _apply_focus_boost: the 0.15 added to a focused chunk
focus_boost == 15

\* retrieve_context: the token budget handed to _enforce_token_budget
max_tokens == 8000

\* retrieve_context: the top_k handed to _select_relevant_documents
top_k == 3

\* RAGService.__init__: values of similarity_threshold, the ends of [0, 1]
\* and the default
Thresholds == {0, 70, 100}

\* the chunks the vector store holds: two of document d, one of document e
StoredChunkIds == <<"k1", "k2", "k3">>

stored_document_id(id) == IF id = "k3" THEN doc_e ELSE doc_d

stored_document(id) == IF id = "k2" THEN <<"b">> ELSE <<"a">>

stored_metadata(id) ==
    CASE id = "k1" ->
           [chunk_index |-> 0, start_char |-> 0, end_char |-> 5, token_count |-> 3000]
      [] id = "k2" ->
           [chunk_index |-> 1, start_char |-> 4, end_char |-> 9, token_count |-> 5000]
      [] id = "k3" ->
           [chunk_index |-> 0, start_char |-> 0, end_char |-> 5, token_count |-> 3001]

\* distance of a stored chunk to the query embedding
StoreDistances == {0, 30, 31}

\* a vector store as seen by one query embedding: the distance of each chunk
VectorStores == [{"k1", "k2", "k3"} -> StoreDistances]

\* stable insertion of id into ids, nearest first
RECURSIVE insert_nearest(_, _, _)
insert_nearest(store, ids, id) ==
    IF ids = <<>> THEN <<id>>
    ELSE IF store[Head(ids)] <= store[id]
         THEN <<Head(ids)>> \o insert_nearest(store, Tail(ids), id)
         ELSE <<id>> \o ids

RECURSIVE nearest_first(_, _)
nearest_first(store, ids) ==
    IF ids = <<>> THEN <<>>
    ELSE insert_nearest(store, nearest_first(store, SubSeq(ids, 1, Len(ids) - 1)),
                        ids[Len(ids)])

\* ChromaVectorStore.query with where={"document_id": doc_id}: the n_results
\* nearest chunks of the document as a QueryResult
vector_store_query(store, n_results, doc_id) ==
    LET of_doc(id) == stored_document_id(id) = doc_id
        ranked == nearest_first(store, SelectSeq(StoredChunkIds, of_doc))
        ids    == SubSeq(ranked, 1, IF Len(ranked) < n_results THEN Len(ranked)
                                    ELSE n_results)
    IN  [ids       |-> ids,
         distances |-> [i \in 1..Len(ids) |-> store[ids[i]]],
         documents |-> [i \in 1..Len(ids) |-> stored_document(ids[i])],
         metadatas |-> [i \in 1..Len(ids) |-> stored_metadata(ids[i])]]

\* the conversion loop with the threshold test left out
to_chunks_unfiltered(results, doc_id, similarity_threshold) ==
    [i \in 1..Len(results.ids) |->
        [chunk_id |-> results.ids[i], document_id |-> doc_id,
         content |-> results.documents[i],
         similarity |-> 100 - results.distances[i],
         metadata |-> results.metadatas[i]]]

\* retrieve_context, the loop over one QueryResult: similarity is
\* 1.0 - distance and a chunk is kept when it is >= the threshold
to_chunks(results, doc_id, similarity_threshold) ==
    LET chunk(i) == [chunk_id |-> results.ids[i], document_id |-> doc_id,
                     content |-> results.documents[i],
                     similarity |-> 100 - results.distances[i],
                     metadata |-> results.metadatas[i]]
        kept(ch) == ch.similarity >= similarity_threshold
    IN  SelectSeq([i \in 1..Len(results.ids) |-> chunk(i)], kept)

\* retrieve_context, the loop over selected_documents
RECURSIVE search_documents(_, _, _, _)
search_documents(store, selected_documents, n_results, similarity_threshold) ==
    IF selected_documents = <<>> THEN <<>>
    ELSE to_chunks(vector_store_query(store, n_results, Head(selected_documents)),
                   Head(selected_documents), similarity_threshold)
         \o search_documents(store, Tail(selected_documents), n_results,
                             similarity_threshold)

\* _apply_focus_boost: a chunk is boosted when the focus start or the focus
\* end lies within [start_char, end_char] of the chunk
apply_focus_boost(chunks, focus_context) ==
    LET focus_start == focus_context.start_char
        focus_end   == focus_context.end_char
        boosted(ch) ==
            LET chunk_start == ch.metadata.start_char
                chunk_end   == ch.metadata.end_char
            IN  IF \/ (focus_start >= chunk_start /\ focus_start <= chunk_end)
                   \/ (focus_end >= chunk_start /\ focus_end <= chunk_end)
                THEN [ch EXCEPT !.similarity =
                         IF ch.similarity + focus_boost > 100 THEN 100
                         ELSE ch.similarity + focus_boost]
                ELSE ch
    IN  [i \in 1..Len(chunks) |-> boosted(chunks[i])]

\* list.sort(key=similarity, reverse=True): descending and stable
RECURSIVE insert_by_similarity(_, _)
insert_by_similarity(sorted, x) ==
    IF sorted = <<>> THEN <<x>>
    ELSE IF Head(sorted).similarity >= x.similarity
         THEN <<Head(sorted)>> \o insert_by_similarity(Tail(sorted), x)
         ELSE <<x>> \o sorted

RECURSIVE sort_by_similarity(_)
sort_by_similarity(chunks) ==
    IF chunks = <<>> THEN <<>>
    ELSE insert_by_similarity(sort_by_similarity(SubSeq(chunks, 1, Len(chunks) - 1)),
                              chunks[Len(chunks)])

\* sum of the token counts of a list of chunks
RECURSIVE sum_tokens(_)
sum_tokens(chunks) ==
    IF chunks = <<>> THEN 0
    ELSE Head(chunks).metadata.token_count + sum_tokens(Tail(chunks))

\* the budget loop with `continue` in place of `break`
RECURSIVE enforce_token_budget_skip(_, _)
enforce_token_budget_skip(chunks, budget) ==
    IF chunks = <<>> THEN <<>>
    ELSE IF Head(chunks).metadata.token_count <= budget
         THEN <<Head(chunks)>>
              \o enforce_token_budget_skip(Tail(chunks),
                                           budget - Head(chunks).metadata.token_count)
         ELSE enforce_token_budget_skip(Tail(chunks), budget)

\* the budget loop that appends a chunk before it tests the running total
RECURSIVE enforce_token_budget_late(_, _)
enforce_token_budget_late(chunks, budget) ==
    IF chunks = <<>> THEN <<>>
    ELSE IF budget >= 0
         THEN <<Head(chunks)>>
              \o enforce_token_budget_late(Tail(chunks),
                                           budget - Head(chunks).metadata.token_count)
         ELSE <<>>

\* _enforce_token_budget: chunks are taken in order while the running total
\* stays within budget; the first chunk that would pass it ends the loop
RECURSIVE enforce_token_budget(_, _)
enforce_token_budget(chunks, budget) ==
    IF chunks = <<>> THEN <<>>
    ELSE IF Head(chunks).metadata.token_count <= budget
         THEN <<Head(chunks)>>
              \o enforce_token_budget(Tail(chunks),
                                      budget - Head(chunks).metadata.token_count)
         ELSE <<>>

\* document summaries as (document_id, cosine similarity to the query) pairs
SummaryLists ==
    {<<>>,
     <<[document_id |-> doc_d, similarity |-> 80],
       [document_id |-> doc_e, similarity |-> 50]>>,
     <<[document_id |-> doc_d, similarity |-> 50],
       [document_id |-> doc_e, similarity |-> 80]>>,
     <<[document_id |-> doc_e, similarity |-> 60]>>}

\* _select_relevant_documents: the top_k documents by summary similarity.
\* With no summaries it calls vector_store.get_all_document_ids, which
\* ChromaVectorStore does not define: the call raises AttributeError.
select_relevant_documents(summaries) ==
    IF summaries = <<>>
    THEN [raised |-> TRUE, error |-> "AttributeError", documents |-> <<>>]
    ELSE LET ranked == sort_by_similarity(summaries)
             top    == SubSeq(ranked, 1, IF Len(ranked) < top_k THEN Len(ranked)
                                         ELSE top_k)
         IN  [raised |-> FALSE, error |-> "",
              documents |-> [i \in 1..Len(top) |-> top[i].document_id]]

\* retrieve_context: the RetrievalResult, or the exception it raises
retrieve_context(similarity_threshold, store, summaries, document_id, focus_context, n_results) ==
    LET selection == IF document_id # <<>>
                     THEN [raised |-> FALSE, error |-> "",
                           documents |-> <<document_id>>]
                     ELSE select_relevant_documents(summaries)
        selected_documents == selection.documents
        all_chunks == search_documents(store, selected_documents, n_results,
                                       similarity_threshold)
        boosted == IF focus_context # <<>>
                   THEN apply_focus_boost(all_chunks, focus_context[1])
                   ELSE all_chunks
        ranked == sort_by_similarity(boosted)
        top_chunks == SubSeq(ranked, 1, IF Len(ranked) < n_results THEN Len(ranked)
                                        ELSE n_results)
        final_chunks == enforce_token_budget(top_chunks, max_tokens)
    IN  IF selection.raised
        THEN [raised |-> TRUE, error |-> selection.error, chunks |-> <<>>,
              total_tokens |-> 0, selected_documents |-> <<>>]
        ELSE [raised |-> FALSE, error |-> "", chunks |-> final_chunks,
              total_tokens |-> sum_tokens(final_chunks),
              selected_documents |-> selected_documents]

\* focus contexts handed to retrieve_context: None, a span that starts in
\* [0, 5] and ends past every chunk, a span inside [6, 7]
focus_2 == [document_id |-> doc_d, start_char |-> 6, end_char |-> 7,
            surrounding_text |-> <<"b">>]

RetrFocuses == {<<>>, <<focus_1>>, <<focus_2>>}

\* One retrieve_context call on a service configured with
\* similarity_threshold; the arguments and the outcome are kept. A behaviour
\* holds one call.
RetrieveContext(similarity_threshold, store, summaries, document_id, focus_context, n_results) ==
    /\ retrieval.op = "init"
    /\ retrieval' = [op |-> "retrieve_context",
                     similarity_threshold |-> similarity_threshold,
                     store |-> store, summaries |-> summaries,
                     document_id |-> document_id,
                     focus_context |-> focus_context, n_results |-> n_results,
                     result |-> retrieve_context(similarity_threshold, store,
                                                 summaries, document_id,
                                                 focus_context, n_results)]
    /\ UNCHANGED <<clockVars, cbVars, clientVars, genVars, rlVars, cacheOpVars,
                   keyVars, chunkVars, apiVars>>

NextRetr ==
    \E similarity_threshold \in Thresholds, store \in VectorStores,
       summaries \in SummaryLists, document_id \in {<<>>, doc_d, doc_e},
       focus_context \in RetrFocuses, n_results \in 1..MaxNResults :
          RetrieveContext(similarity_threshold, store, summaries, document_id,
                          focus_context, n_results)

SpecRetr == Init /\ [][NextRetr]_vars

\* C20: every chunk of a returned RetrievalResult has similarity >= the
\* similarity threshold the service was configured with, whatever the
\* threshold and with or without a focus context.
C20_ChunksAboveThreshold ==
    (retrieval.op = "retrieve_context" /\ ~retrieval.result.raised) =>
       \A i \in 1..Len(retrieval.result.chunks) :
          retrieval.result.chunks[i].similarity >= retrieval.similarity_threshold

\* a result at the default threshold that holds a chunk exactly at the
\* threshold next to a boosted one, while the third stored chunk, at 0.69,
\* was left out
C20_Witness ==
    /\ retrieval.op = "retrieve_context"
    /\ ~retrieval.result.raised
    /\ retrieval.similarity_threshold = 70
    /\ retrieval.focus_context = <<focus_2>>
    /\ retrieval.store = [k1 |-> 30, k2 |-> 30, k3 |-> 31]
    /\ retrieval.document_id = <<>>
    /\ Len(retrieval.result.selected_documents) = 2
    /\ Len(retrieval.result.chunks) = 2
    /\ retrieval.result.chunks[1].similarity = 85
    /\ retrieval.result.chunks[2].similarity = 70

\* C21: the token counts of the chunks of a returned RetrievalResult add up
\* to at most the retrieval budget, and total_tokens is that sum.
C21_TokenBudget ==
    (retrieval.op = "retrieve_context" /\ ~retrieval.result.raised) =>
       LET chunks == retrieval.result.chunks
           counts == [i \in 1..Len(chunks) |-> chunks[i].metadata.token_count]
           RECURSIVE total(_)
           total(n) == IF n = 0 THEN 0 ELSE counts[n] + total(n - 1)
       IN  /\ total(Len(chunks)) <= max_tokens
           /\ retrieval.result.total_tokens = total(Len(chunks))

\* three chunks pass the threshold with equal similarity; the first two fill
\* the budget exactly and the third is cut
C21_Witness ==
    /\ retrieval.op = "retrieve_context"
    /\ ~retrieval.result.raised
    /\ retrieval.n_results = 3
    /\ retrieval.similarity_threshold = 0
    /\ retrieval.store = [k1 |-> 0, k2 |-> 0, k3 |-> 0]
    /\ Len(retrieval.result.selected_documents) = 2
    /\ Len(retrieval.result.chunks) = 2
    /\ retrieval.result.total_tokens = max_tokens

\* the similarity the search gave a returned chunk before any boost
RawSimilarity(ch) == 100 - retrieval.store[ch.chunk_id]

\* the character range of a chunk and the focus span share a position
Overlaps(ch, focus_context) ==
    /\ focus_context.start_char <= ch.metadata.end_char
    /\ ch.metadata.start_char <= focus_context.end_char

\* C22: with a focus context, every returned chunk whose character range
\* overlaps the focus span has similarity min(1.0, raw + 0.15) and every other
\* returned chunk keeps its raw similarity.
C22_BoostIffOverlap ==
    (/\ retrieval.op = "retrieve_context"
     /\ ~retrieval.result.raised
     /\ retrieval.focus_context # <<>>) =>
       \A i \in 1..Len(retrieval.result.chunks) :
          LET ch  == retrieval.result.chunks[i]
              raw == RawSimilarity(ch)
          IN  IF Overlaps(ch, retrieval.focus_context[1])
              THEN ch.similarity = (IF raw + focus_boost > 100 THEN 100
                                    ELSE raw + focus_boost)
              ELSE ch.similarity = raw

\* ------------------------------------------------------------------------
\* ResponseCache properties (checked under SpecCache and SpecCacheTTL)
\* ------------------------------------------------------------------------
\* the step is a cache call: every step but the passing of time records its
\* operation in cache_op
CacheCallStep == ticks' = ticks

\* C15: after any sequence of set, get, invalidate_document and clear calls
\* the cache holds at most max_size entries.
C15_SizeWithinMax == Len(cache) <= max_size

\* a set on a full cache has just stored a new key and removed another
C15_Witness ==
    /\ cache_op.op = "set"
    /\ cache_op.removed # {}
    /\ Len(cache) = max_size
    /\ cache[max_size].key = cache_op.key

\* C16: a key removed by a set that stores a new key is the least recently
\* accessed one, where an access is an insertion or overwrite by set or a hit
\* by get; a get hit leaves its entry at the most-recently-used end.
C16_EvictsLeastRecentlyAccessed ==
    [][ CacheCallStep =>
          /\ (cache_op'.op = "set" /\ cache_op'.key \notin KeysOf(cache) =>
                 \A k \in cache_op'.removed : k = Head(lru_order))
          /\ (cache_op'.op = "get" /\ cache_op'.result # <<>> =>
                 cache'[Len(cache')].key = cache_op'.key)
      ]_vars

\* C17: a get for a key that is not stored, or whose entry is older than the
\* ttl, returns nothing and counts a miss and no hit; for an unknown key the
\* cache is left as it was, for an expired entry exactly that entry is removed
\* and the order of the others is kept.
C17_AbsentAndExpired ==
    [][ (CacheCallStep /\ cache_op'.op = "get") =>
          LET i == CacheIndex(cache, cache_op'.key)
          IN  /\ (i = 0 =>
                     /\ cache_op'.result = <<>>
                     /\ cache' = cache
                     /\ stats'.misses = stats.misses + 1
                     /\ stats'.hits = stats.hits)
              /\ (i # 0 /\ now - cache[i].created_at > ttl =>
                     /\ cache_op'.result = <<>>
                     /\ cache' = RemoveAt(cache, i)
                     /\ stats'.misses = stats.misses + 1
                     /\ stats'.hits = stats.hits)
      ]_vars

\* a get has just found its entry expired and removed it, leaving another
\* entry stored
C17_Witness ==
    /\ cache_op.op = "get"
    /\ cache_op.result = <<>>
    /\ cache_op.removed = {cache_op.key}
    /\ Len(cache) >= 1
    /\ stats.misses = 1
    /\ stats.hits = 0

\* the keys of the entries of c that have a source chunk of document d
KeysReferencing(c, d) ==
    {c[i].key : i \in {j \in 1..Len(c) :
                          \E n \in 1..Len(c[j].source_chunks) :
                             c[j].source_chunks[n].document_id = d}}

\* C18: invalidate_document(d) removes exactly the entries that have a source
\* chunk of d, keeps the others in order and returns the number removed; only
\* a set makes an entry with a source of d appear, and a get returns only an
\* entry that is stored, so no get returns an answer referencing d between the
\* invalidation and a later set.
C18_InvalidateDocument ==
    [][ CacheCallStep =>
          /\ (cache_op'.op = "invalidate_document" =>
                 LET d == cache_op'.key
                 IN  /\ cache' = SelectSeq(cache, LAMBDA e : e.key \notin KeysReferencing(cache, d))
                     /\ KeysReferencing(cache', d) = {}
                     /\ cache_op'.result = Cardinality(KeysReferencing(cache, d)))
          /\ (cache_op'.op # "set" =>
                 \A d \in Documents :
                    KeysReferencing(cache', d) \subseteq KeysReferencing(cache, d))
          /\ (cache_op'.op = "get" /\ cache_op'.result # <<>> =>
                 LET i == CacheIndex(cache, cache_op'.key)
                 IN  /\ i # 0
                     /\ cache_op'.result[1].source_chunks = cache[i].source_chunks)
      ]_vars

\* an invalidation has just removed two entries and kept a third
C18_Witness ==
    /\ cache_op.op = "invalidate_document"
    /\ cache_op.result = 2
    /\ Cardinality(cache_op.removed) = 2
    /\ Len(cache) = 1

\* ------------------------------------------------------------------------
\* generate_response: termination
\* ------------------------------------------------------------------------
\* the error event of the `except asyncio.TimeoutError` clause
timeout_event(text) ==
    [event |-> "error",
     data |-> [error |-> "Request timed out. Please try again.",
               partial_response |-> partial_response(text)]]

\* C23: a generation that waits for the language-model stream does not wait
\* for ever: unless the stream itself delivers, fails or ends, or the caller
\* cancels, the engine ends the wait with the timeout error event carrying the
\* text relayed so far.
C23_StalledStreamTimesOut ==
    (gen_pc = "awaiting_chunk")
       ~> \/ gen_pc \in {"yielding", "finished", "cancelled"}
          \/ /\ events # <<>>
             /\ events[Len(events)] = timeout_event(response_text)

\* ------------------------------------------------------------------------
\* CircuitBreaker: cancellation (checked under Spec)
\* ------------------------------------------------------------------------
\* C24: when the caller's cancellation ends a call that the breaker admitted
\* and that is waiting on the wrapped operation, nothing is recorded: state,
\* failure_count, last_failure_time and success_count are what they were
\* before the cancellation.
C24_CancelRecordsNothing ==
    [][last_op'.op = "cancel" =>
          /\ circuit_breaker'.state = circuit_breaker.state
          /\ circuit_breaker'.failure_count = circuit_breaker.failure_count
          /\ circuit_breaker'.last_failure_time = circuit_breaker.last_failure_time
          /\ circuit_breaker'.success_count = circuit_breaker.success_count
          /\ recorded' = <<>>]_vars

\* a call admitted in Closed has been cancelled while the breaker is one
\* failure short of opening, and it is still Closed
C24_Witness ==
    /\ last_op.op = "cancel"
    /\ outcome = "cancelled"
    /\ last_op.admitted_in = CLOSED
    /\ circuit_breaker.state = CLOSED
    /\ circuit_breaker.failure_count = failure_threshold - 1

\* ------------------------------------------------------------------------
\* ChunkService
\* ------------------------------------------------------------------------
\* A text is known by its pieces: a document is the list of its paragraphs
\* (the result of markdown.split("\n\n")), a paragraph carries the list of its
\* sentences (the result of the re.split on sentence endings), and each piece
\* carries its length in characters and the token count tiktoken gives it.
\* Sentences of a paragraph are separated by one space.

\* ChunkService class attributes
TARGET_TOKENS == 800

MAX_TOKENS == 1024

MIN_TOKENS == 512

\* int(TARGET_TOKENS * OVERLAP_RATIO), OVERLAP_RATIO = 0.15
overlap_tokens == 120

\* tokens tiktoken spends on a "\n\n" between two joined paragraphs
paragraph_joiner_tokens == 1

\* tokens tiktoken spends on the " " between two joined sentences: the space
\* is part of the token of the word that follows it
sentence_joiner_tokens == 0

sentence(text, tokens) == [text |-> text, tokens |-> tokens, len |-> 4 * tokens]

RECURSIVE sum_field_tokens(_)
sum_field_tokens(pieces) ==
    IF pieces = <<>> THEN 0 ELSE Head(pieces).tokens + sum_field_tokens(Tail(pieces))

RECURSIVE sum_field_len(_)
sum_field_len(pieces) ==
    IF pieces = <<>> THEN 0 ELSE Head(pieces).len + sum_field_len(Tail(pieces))

\* a paragraph made of the given sentences
paragraph(text, sentences) ==
    [text |-> text,
     tokens |-> sum_field_tokens(sentences)
                   + sentence_joiner_tokens * (Len(sentences) - 1),
     len |-> sum_field_len(sentences) + (Len(sentences) - 1),
     sentences |-> sentences]

\* the empty paragraph, as between two consecutive blank lines
para_empty == [text |-> "", tokens |-> 0, len |-> 0, sentences |-> <<>>]

para_100 == paragraph("a", <<sentence("a1", 100)>>)

para_700 == paragraph("b", <<sentence("b1", 700)>>)

para_1000 == paragraph("c", <<sentence("c1", 1000)>>)

\* oversized paragraphs: 2000 tokens in three sentences, 1250 in five
para_2000 ==
    paragraph("L", <<sentence("L1", 600), sentence("L2", 600), sentence("L3", 800)>>)

para_1250 ==
    paragraph("M", <<sentence("M1", 250), sentence("M2", 250), sentence("M3", 250),
                     sentence("M4", 250), sentence("M5", 250)>>)

Paragraphs == {para_empty, para_100, para_700, para_1000, para_2000, para_1250}

\* documents of 1..n paragraphs
RECURSIVE Markdowns(_)
Markdowns(n) ==
    IF n = 0 THEN {}
    ELSE Markdowns(n - 1)
         \cup {<<p>> : p \in Paragraphs}
         \cup {Append(m, p) : m \in {x \in Markdowns(n - 1) : Len(x) = n - 1},
                              p \in Paragraphs}

\* count_tokens of the pieces joined with a separator of joiner tokens
count_tokens(pieces, joiner) ==
    IF pieces = <<>> THEN 0
    ELSE sum_field_tokens(pieces) + joiner * (Len(pieces) - 1)

\* the Chunk built at a flush
make_chunk(index, pieces, joiner, start_char, end_char) ==
    [index |-> index,
     content |-> [i \in 1..Len(pieces) |-> pieces[i].text],
     token_count |-> count_tokens(pieces, joiner),
     start_char |-> start_char,
     end_char |-> end_char]

\* _get_overlap: the longest tail of texts whose token counts, taken from the
\* end, stay within target_tokens
RECURSIVE get_overlap(_, _)
get_overlap(texts, target_tokens) ==
    IF texts = <<>> THEN <<>>
    ELSE LET last == texts[Len(texts)]
         IN  IF last.tokens <= target_tokens
             THEN Append(get_overlap(SubSeq(texts, 1, Len(texts) - 1),
                                     target_tokens - last.tokens), last)
             ELSE <<>>

\* _split_by_sentences, one turn of the loop over sentences
sentence_step(st, sent, start_index) ==
    LET sent_len == sent.len + 1
        flush == st.current_tokens + sent.tokens > TARGET_TOKENS
                    /\ st.current_sentences # <<>>
        kept == IF Len(st.current_sentences) > 2
                THEN SubSeq(st.current_sentences, Len(st.current_sentences) - 1,
                            Len(st.current_sentences))
                ELSE <<>>
        st1 == IF flush
               THEN [chunks |-> Append(st.chunks,
                                       make_chunk(start_index + Len(st.chunks),
                                                  st.current_sentences,
                                                  sentence_joiner_tokens,
                                                  st.current_start, st.char_pos)),
                     current_sentences |-> kept,
                     current_tokens |-> sum_field_tokens(kept),
                     current_start |-> st.char_pos,
                     char_pos |-> st.char_pos]
               ELSE st
    IN  [st1 EXCEPT !.current_sentences = Append(@, sent),
                    !.current_tokens = @ + sent.tokens,
                    !.char_pos = @ + sent_len]

RECURSIVE sentence_loop(_, _, _)
sentence_loop(st, sentences, start_index) ==
    IF sentences = <<>> THEN st
    ELSE sentence_loop(sentence_step(st, Head(sentences), start_index),
                       Tail(sentences), start_index)

\* _split_by_sentences
split_by_sentences(para, start_char, start_index) ==
    LET st == sentence_loop([chunks |-> <<>>, current_sentences |-> <<>>,
                             current_tokens |-> 0, current_start |-> start_char,
                             char_pos |-> start_char],
                            para.sentences, start_index)
    IN  IF st.current_sentences # <<>>
        THEN Append(st.chunks,
                    make_chunk(start_index + Len(st.chunks), st.current_sentences,
                               sentence_joiner_tokens, st.current_start, st.char_pos))
        ELSE st.chunks

\* chunk_document, one turn of the loop over paragraphs (lines 87-141)
paragraph_step(st, para) ==
    LET para_len == para.len + 2
    IN  IF para.tokens > MAX_TOKENS
        THEN LET flushed ==
                    IF st.current_texts # <<>>
                    THEN Append(st.chunks,
                                make_chunk(Len(st.chunks), st.current_texts,
                                           paragraph_joiner_tokens,
                                           st.current_start, st.char_position))
                    ELSE st.chunks
             IN  [chunks |-> flushed
                                \o split_by_sentences(para, st.char_position,
                                                      Len(flushed)),
                  current_texts |-> <<>>,
                  current_tokens |-> IF st.current_texts # <<>> THEN 0
                                     ELSE st.current_tokens,
                  current_start |-> st.char_position + para_len,
                  char_position |-> st.char_position + para_len]
        ELSE LET flush == st.current_tokens + para.tokens > TARGET_TOKENS
                             /\ st.current_texts # <<>>
                 overlap_texts == get_overlap(st.current_texts, overlap_tokens)
                 st1 == IF flush
                        THEN [chunks |-> Append(st.chunks,
                                                make_chunk(Len(st.chunks),
                                                           st.current_texts,
                                                           paragraph_joiner_tokens,
                                                           st.current_start,
                                                           st.char_position)),
                              current_texts |-> overlap_texts,
                              current_tokens |-> sum_field_tokens(overlap_texts),
                              current_start |->
                                 st.char_position
                                    - (sum_field_len(overlap_texts)
                                          + 2 * Len(overlap_texts)),
                              char_position |-> st.char_position]
                        ELSE st
             IN  [st1 EXCEPT !.current_texts = Append(@, para),
                             !.current_tokens = @ + para.tokens,
                             !.char_position = @ + para_len]

RECURSIVE paragraph_loop(_, _)
paragraph_loop(st, paragraphs) ==
    IF paragraphs = <<>> THEN st
    ELSE paragraph_loop(paragraph_step(st, Head(paragraphs)), Tail(paragraphs))

\* the re-indexing pass counting from 1
reindex_from_one(chunks) ==
    [i \in 1..Len(chunks) |-> [chunks[i] EXCEPT !.index = i]]

\* lines 156-158: `for i, chunk in enumerate(chunks): chunk.index = i`
reindex(chunks) ==
    [i \in 1..Len(chunks) |-> [chunks[i] EXCEPT !.index = i - 1]]

\* `not markdown or not markdown.strip()`: nothing but separators
is_blank(markdown) == \A i \in 1..Len(markdown) : markdown[i].len = 0

\* chunk_document: the list of chunks, or ChunkingError
chunk_document(markdown) ==
    IF is_blank(markdown)
    THEN [raised |-> TRUE, error |-> "ChunkingError", chunks |-> <<>>]
    ELSE LET st == paragraph_loop([chunks |-> <<>>, current_texts |-> <<>>,
                                   current_tokens |-> 0, current_start |-> 0,
                                   char_position |-> 0], markdown)
             chunks == IF st.current_texts # <<>>
                       THEN Append(st.chunks,
                                   make_chunk(Len(st.chunks), st.current_texts,
                                              paragraph_joiner_tokens,
                                              st.current_start, st.char_position))
                       ELSE st.chunks
         IN  [raised |-> FALSE, error |-> "", chunks |-> reindex(chunks)]

\* One chunk_document call; the document and the outcome are kept. A
\* behaviour holds one call.
ChunkDocument(markdown) ==
    /\ chunking.op = "init"
    /\ chunking' = [op |-> "chunk_document", markdown |-> markdown,
                    result |-> chunk_document(markdown)]
    /\ UNCHANGED <<clockVars, cbVars, clientVars, genVars, rlVars, cacheOpVars,
                   keyVars, retrVars, apiVars>>

NextChunk == \E markdown \in Markdowns(MaxParagraphs) : ChunkDocument(markdown)

SpecChunk == Init /\ [][NextChunk]_vars

\* the call returned chunks
Chunked == chunking.op = "chunk_document" /\ ~chunking.result.raised

\* C25: when no paragraph of the document has more than MAX_TOKENS tokens,
\* every returned chunk but the last has a token count within
\* [MIN_TOKENS, MAX_TOKENS] and the last has at most MAX_TOKENS.
C25_ChunkTokenBounds ==
    (/\ Chunked
     /\ \A i \in 1..Len(chunking.markdown) : chunking.markdown[i].tokens <= MAX_TOKENS) =>
       LET chunks == chunking.result.chunks
       IN  /\ \A i \in 1..(Len(chunks) - 1) :
                 /\ chunks[i].token_count >= MIN_TOKENS
                 /\ chunks[i].token_count <= MAX_TOKENS
           /\ chunks[Len(chunks)].token_count <= MAX_TOKENS

\* the pieces chunk_document works on: a paragraph as a whole, or each
\* sentence of a paragraph of more than MAX_TOKENS tokens
PiecesOf(markdown) ==
    UNION {IF markdown[i].tokens > MAX_TOKENS
           THEN {markdown[i].sentences[j].text : j \in 1..Len(markdown[i].sentences)}
           ELSE {markdown[i].text} : i \in 1..Len(markdown)}

\* len(markdown): the paragraphs and the "\n\n" between them
MarkdownLen(markdown) == sum_field_len(markdown) + 2 * (Len(markdown) - 1)

\* C26: no content is dropped: every paragraph, or sentence of an oversized
\* paragraph, is in the content of some chunk; each chunk has
\* end_char >= start_char; each chunk after the first starts at or before the
\* end of the chunk before it; and the ranges reach from offset 0 to the end
\* of the input.
C26_NoContentDropped ==
    Chunked =>
       LET chunks == chunking.result.chunks
       IN  /\ \A t \in PiecesOf(chunking.markdown) :
                 \E i \in 1..Len(chunks) :
                    \E j \in 1..Len(chunks[i].content) : chunks[i].content[j] = t
           /\ \A i \in 1..Len(chunks) : chunks[i].end_char >= chunks[i].start_char
           /\ \A i \in 2..Len(chunks) : chunks[i].start_char <= chunks[i - 1].end_char
           /\ chunks[1].start_char = 0
           /\ chunks[Len(chunks)].end_char >= MarkdownLen(chunking.markdown)

\* C27: the chunks of a non-empty document carry the indices 0, 1, ..., n-1
\* in list order, also when the sentence chunks of an oversized paragraph lie
\* between chunks of ordinary paragraphs.
C27_SequentialIndices ==
    Chunked =>
       /\ Len(chunking.result.chunks) >= 1
       /\ \A i \in 1..Len(chunking.result.chunks) :
             chunking.result.chunks[i].index = i - 1

\* an ordinary paragraph, an oversized one split into three sentence chunks
\* and another ordinary paragraph: five chunks, the last with index 4
C27_Witness ==
    /\ Chunked
    /\ chunking.markdown = <<para_700, para_2000, para_100>>
    /\ Len(chunking.result.chunks) = 5
    /\ chunking.result.chunks[2].content = <<"L1">>
    /\ chunking.result.chunks[5].index = 4

\* ------------------------------------------------------------------------
\* DeepSeekClient: what the breaker records (checked under SpecClient)
\* ------------------------------------------------------------------------
\* C28: for a stream_chat call that the breaker admitted, the recorded outcome
\* is what the DeepSeek API did: one success when the API served the stream
\* to its end, one failure when the API failed.
C28_RecordedMatchesProvider ==
    (last_op.op = "stream_chat" /\ op_invoked) =>
       /\ (provider_state = "healthy" => recorded = <<"success">>)
       /\ (provider_state = "failing" => recorded = <<"failure">>)

\* ------------------------------------------------------------------------
\* generate_response: relaying of fragments (checked under SpecGen)
\* ------------------------------------------------------------------------
\* the first n events are the token events of fragments 1..n, in that order
TokensRelayed(evs, n) ==
    /\ Len(evs) >= n
    /\ \A i \in 1..n : evs[i].event = "token" /\ evs[i].data.content = Fragment(i)

\* C29: on a cache miss every fragment received from the language-model
\* client is emitted as one token event, in the order received and before the
\* next fragment is pulled, and when the stream completes the text stored in
\* the cache is the concatenation of the emitted token contents.
C29_FragmentsRelayedInOrder ==
    llm_called =>
       LET k   == token_count
           key == compute_key(req.query, req.selected_documents, req.focus_context)
           idx == CacheIndex(cache, key)
       IN  /\ (gen_pc = "awaiting_chunk" =>
                  Len(events) = k /\ TokensRelayed(events, k))
           /\ (gen_pc = "yielding" /\ stream_outcome = "none" =>
                  /\ Len(events) = k - 1
                  /\ TokensRelayed(events, k - 1)
                  /\ Len(pending) = 1
                  /\ pending[1].event = "token"
                  /\ pending[1].data.content = Fragment(k))
           /\ (stream_outcome = "done" =>
                  /\ TokensRelayed(events, k)
                  /\ idx # 0
                  /\ cache[idx].response_text = RelayedText(SubSeq(events, 1, k)))

\* a stream of two fragments has completed and the consumer has taken every
\* event; the stored text is the two fragments in order
C29_Witness ==
    /\ llm_called
    /\ stream_outcome = "done"
    /\ gen_pc = "finished"
    /\ token_count = 2
    /\ RelayedText(events) = <<"a", "b">>
    /\ \E i \in 1..Len(cache) : cache[i].response_text = <<"a", "b">>

\* ------------------------------------------------------------------------
\* generate_response with a Response Cache that can raise
\* ------------------------------------------------------------------------
\* lines 330-334: compute_key or get raises. Both calls stand before the try
\* statement, so the exception leaves the generator at its first step: the
\* consumer gets the exception and no event.
LookupRaises(r) ==
    /\ gen_pc \in {"idle", "finished", "cancelled"}
    /\ requests < MaxRequests
    /\ gen_pc' = "raised"
    /\ gen_after' = "raised"
    /\ pending' = <<>>
    /\ req' = r
    /\ events' = <<>>
    /\ response_text' = <<>>
    /\ token_count' = 0
    /\ cached_response' = <<>>
    /\ llm_called' = FALSE
    /\ llm_calls' = 0
    /\ stream_outcome' = "none"
    /\ done_at' = NoTime
    /\ fresh_at_start' = <<>>
    /\ cache_before' = cache
    /\ requests' = requests + 1
    /\ UNCHANGED <<cache, stats, clockVars, cbVars, clientVars, auxVars>>

\* lines 367-378 and 444-452: the stream delivers its done chunk and set
\* raises. The call stands inside the try statement, so `except Exception`
\* turns the exception into the error event and the loop is left.
SetRaises ==
    /\ gen_pc = "awaiting_chunk"
    /\ Emit(handle_exception("Exception", response_text), "finished")
    /\ stream_outcome' = "done"
    /\ UNCHANGED <<cache, stats, req, events, response_text, token_count,
                   cached_response, llm_called, requests, fresh_at_start, cache_before, llm_calls,
                   done_at, clockVars, cbVars, clientVars, auxVars>>

NextGenFault ==
    \/ NextGen
    \/ \E r \in Requests : LookupRaises(r)
    \/ SetRaises

SpecGenFault == Init /\ [][NextGenFault]_vars

\* C30: an exception raised by the Response Cache does not fail the request:
\* generate_response never ends by raising, and once the language-model
\* stream has completed the events handed to the caller hold no error event
\* and, when all are taken, end with the source events and the done event.
C30_CacheErrorsDoNotFail ==
    /\ gen_pc # "raised"
    /\ (stream_outcome = "done" =>
           /\ \A i \in 1..Len(events) : events[i].event # "error"
           /\ \A i \in 1..Len(pending) : pending[i].event # "error"
           /\ (gen_pc = "finished" =>
                  /\ Len(events) = token_count + Len(req.chunks) + 1
                  /\ events[Len(events)].event = "done"
                  /\ \A i \in 1..Len(req.chunks) :
                        events[token_count + i].event = "source"))

\* ------------------------------------------------------------------------
\* generate_response: replayed sources (checked under SpecGen)
\* ------------------------------------------------------------------------
\* C31: when a call served from the cache has handed over all its events, the
\* source event replayed for each stored chunk has the payload of the source
\* event that was emitted for that chunk when the answer was generated.
C31_ReplayedSourcesSamePayload ==
    (cached_response # <<>> /\ gen_pc = "finished") =>
       LET cr == cached_response[1]
       IN  \A i \in 1..Len(cr.source_chunks) :
              /\ events[1 + i].event = "source"
              /\ events[1 + i].data = source_event(cr.source_chunks[i]).data

\* ------------------------------------------------------------------------
\* retrieve_context: ranking and budget (checked under SpecRetr)
\* ------------------------------------------------------------------------
\* the chunks of the latest call that passed the threshold, with the focus
\* boost applied, before they are ranked
Survivors ==
    LET found == search_documents(retrieval.store,
                                  retrieval.result.selected_documents,
                                  retrieval.n_results,
                                  retrieval.similarity_threshold)
        boosted == IF retrieval.focus_context # <<>>
                   THEN apply_focus_boost(found, retrieval.focus_context[1])
                   ELSE found
    IN  {boosted[i] : i \in 1..Len(boosted)}

\* C32: the returned chunks are survivors in descending order of similarity,
\* at most n_results of them, no survivor left out ranks above a returned
\* one, and when fewer than min(n_results, number of survivors) are returned
\* a best-ranked survivor left out would have passed the token budget.
C32_RankedPrefixWithinBudget ==
    (retrieval.op = "retrieve_context" /\ ~retrieval.result.raised) =>
       LET res  == retrieval.result.chunks
           in   == {res[i] : i \in 1..Len(res)}
           out  == Survivors \ in
           cap  == IF Cardinality(Survivors) < retrieval.n_results
                   THEN Cardinality(Survivors) ELSE retrieval.n_results
       IN  /\ in \subseteq Survivors
           /\ Cardinality(in) = Len(res)
           /\ Len(res) <= cap
           /\ \A i \in 1..(Len(res) - 1) : res[i].similarity >= res[i + 1].similarity
           /\ \A x \in out : \A r \in in : x.similarity <= r.similarity
           /\ (Len(res) < cap =>
                  \E x \in out :
                     /\ \A y \in out : y.similarity <= x.similarity
                     /\ retrieval.result.total_tokens + x.metadata.token_count
                           > max_tokens)

\* three survivors ranked k2, k3, k1: k2 is returned, k3 would pass the
\* budget and ends the walk, and k1 is left out although it would fit
C32_Witness ==
    /\ retrieval.op = "retrieve_context"
    /\ ~retrieval.result.raised
    /\ retrieval.n_results = 3
    /\ retrieval.focus_context = <<>>
    /\ retrieval.store = [k1 |-> 31, k2 |-> 0, k3 |-> 30]
    /\ Cardinality(Survivors) = 3
    /\ Len(retrieval.result.chunks) = 1
    /\ retrieval.result.chunks[1].chunk_id = "k2"
    /\ retrieval.result.total_tokens + stored_metadata("k1").token_count <= max_tokens

\* the document ids the vector store holds chunks of
KnownDocuments == {stored_document_id(StoredChunkIds[i]) : i \in 1..Len(StoredChunkIds)}

\* C33: a retrieve_context call without document_id, made while no document
\* summary exists, returns a result whose selected_documents are all the
\* documents known to the vector store.
C33_FallbackSearchesAllDocuments ==
    (/\ retrieval.op = "retrieve_context"
     /\ retrieval.document_id = <<>>
     /\ retrieval.summaries = <<>>) =>
       /\ ~retrieval.result.raised
       /\ {retrieval.result.selected_documents[i] :
              i \in 1..Len(retrieval.result.selected_documents)} = KnownDocuments

\* ---------------------------------------------------------------------
\* The periodic sweep of the rate limiter
\* ---------------------------------------------------------------------

\* delays after a sweep at which a later call is compared
SweepHorizon == {0, 1, hour - 1, hour}

\* session s has a timestamp less than one hour old in the table
HasRecentQuery(s) ==
    \E i \in 1..Len(query_counts[s]) : now - query_counts[s][i] < hour

\* C34: a step of _cleanup_old_queries leaves every active-stream counter as
\* it was, leaves the outcome (result and stored list) of a check_query_limit
\* and of an acquire_stream made at any later time the same as it would have
\* been without the sweep, and leaves in the query table exactly the sessions
\* that have a timestamp within the last hour, with those timestamps.
C34_SweepIsInvisible ==
    [][ (RLCallStep /\ rl_op'.op = "cleanup") =>
          /\ active_streams' = active_streams
          /\ \A s \in Sessions :
                /\ \A d \in SweepHorizon :
                      check_query_limit(query_counts'[s], now + d)
                          = check_query_limit(query_counts[s], now + d)
                /\ acquire_stream(active_streams'[s]) = acquire_stream(active_streams[s])
                /\ (query_counts'[s] # <<>>) <=> HasRecentQuery(s)
                /\ \A i \in 1..Len(query_counts'[s]) : now - query_counts'[s][i] < hour
      ]_vars

\* a sweep has just removed one session, whose only admitted call is an hour
\* old, and kept the other, which still has a recent timestamp
C34_Witness ==
    /\ rl_op.op = "cleanup"
    /\ \E s, u \in Sessions :
          /\ admitted_log[s] # <<>> /\ query_counts[s] = <<>>
          /\ query_counts[u] # <<>>

\* C37: a set whose key is already stored replaces that entry and removes no
\* other entry, whatever the size of the cache: the stored keys are the same
\* before and after, and every entry under another key is as it was.
C37_OverwriteRemovesNothing ==
    [][ (CacheCallStep /\ cache_op'.op = "set" /\ cache_op'.key \in KeysOf(cache)) =>
          /\ KeysOf(cache') = KeysOf(cache)
          /\ \A i \in 1..Len(cache) :
                cache[i].key # cache_op'.key =>
                   \E j \in 1..Len(cache') : cache'[j] = cache[i]
      ]_vars

\* C39: only calls admitted while the breaker was Half-Open count toward
\* success_threshold: when a call admitted in another state returns
\* successfully while the breaker is Half-Open, the success count and the
\* state of the breaker stay as they were.
C39_OnlyProbesCount ==
    [][ \A c \in Callers :
          ( /\ call_pc[c] = "awaiting" /\ call_pc'[c] = "idle"
            /\ last_op'.op = "return" /\ last_op'.caller = c
            /\ admitted_in[c] # HALF_OPEN
            /\ circuit_breaker.state = HALF_OPEN ) =>
              /\ circuit_breaker'.success_count = circuit_breaker.success_count
              /\ circuit_breaker'.state = HALF_OPEN
      ]_vars

\* C40: in a search over several documents with a focus context, a returned
\* chunk that belongs to a document other than the one the focus span lies in
\* has its raw similarity, whatever its character offsets.
C40_BoostOnlyInFocusDocument ==
    (/\ retrieval.op = "retrieve_context"
     /\ ~retrieval.result.raised
     /\ Len(retrieval.result.selected_documents) > 1
     /\ retrieval.focus_context # <<>>) =>
       \A i \in 1..Len(retrieval.result.chunks) :
          LET ch == retrieval.result.chunks[i]
          IN  ch.document_id # retrieval.focus_context[1].document_id =>
                 ch.similarity = RawSimilarity(ch)

\* the fingerprint of the call in progress
CallKey == compute_key(req.query, req.selected_documents, req.focus_context)

\* the call in progress has ended with an error event, which was delivered
EndedWithError ==
    /\ stream_outcome \in StreamErrors
    /\ gen_pc = "finished"

\* C38 as stated: after a generate_response call that ended with an error
\* event the stored keys and their contents are the same as before the call.
C38_ErrorCallLeavesCacheAsFound ==
    EndedWithError => cache = cache_before

\* C38: a generate_response call that ended with an error event stored
\* nothing: the cache is the cache the call found, less the entry under the
\* call's own key, which was expired and was removed by the call's lookup; no
\* entry is stored under the call's key, so a later call cannot replay the
\* failed or partial answer.
C38_ErrorCallStoresNothing ==
    EndedWithError =>
       /\ cache = SelectSeq(cache_before, LAMBDA e : e.key # CallKey)
       /\ \A i \in 1..Len(cache_before) :
             cache_before[i].key = CallKey => now - cache_before[i].created_at > ttl
       /\ CacheIndex(cache, CallKey) = 0

\* a call failed after relaying a fragment while another answer was stored,
\* and that answer is still the only entry
C38_Witness ==
    /\ EndedWithError
    /\ token_count > 0
    /\ Len(cache) = 1
    /\ cache = cache_before

\* ---------------------------------------------------------------------
\* send_message and its event_generator (api/chat.py)
\* ---------------------------------------------------------------------
\* answer fragments carried by the engine's token events
ChatFragments == {<<"a">>, <<"b">>}

\* exceptions an await inside the try block of event_generator raises
ChatErrors == {"TimeoutError", "Exception"}

\* everything but the state of send_message
OtherThanChat == <<clockVars, cbVars, clientVars, genVars, rlVars, cacheOpVars, keyVars, retrVars, chunkVars, tasks, processing, voyage_api_key>>

\* SessionManager.save_message: one more row for the session; interrupted is
\* the flag of the metadata of an assistant row
save_message(messages, role, content, interrupted) ==
    Append(messages, [role |-> role, content |-> content, interrupted |-> interrupted])

\* the generator suspends at `yield`, and goes on as resume says when the
\* consumer asks for the next event
yield_event(c, event, resume) ==
    [c EXCEPT !.pc = "yielding", !.last_event = event, !.resume = resume]

\* the finally clause of event_generator: the answer is saved when it is not
\* empty, with the flag as it stands
event_generator_finally(c, how) ==
    [c EXCEPT !.pc = "closed", !.ended_by = how, !.resume = "none",
              !.messages = IF c.response_text # <<>>
                           THEN save_message(c.messages, "assistant", c.response_text,
                                             c.interrupted)
                           ELSE c.messages]

\* send_message on a valid session within its rate limit: the user message is
\* saved, the response starts and the generator runs to its first await
SendMessage ==
    /\ chat.pc \in {"idle", "closed"}
    /\ chat.sent < MaxChatMessages
    /\ chat' = [chat EXCEPT !.pc = "awaiting", !.response_text = <<>>,
                            !.interrupted = FALSE, !.engine = "tokens",
                            !.resume = "none", !.last_event = "none", !.tokens = 0,
                            !.ended_by = "none", !.sent = chat.sent + 1,
                            !.messages = save_message(chat.messages, "user", <<"q">>, FALSE),
                            !.saved_from = Len(chat.messages) + 1]
    /\ UNCHANGED OtherThanChat

\* generate_response yields a token event: it is accumulated and relayed
EngineToken(content) ==
    /\ chat.pc = "awaiting"
    /\ chat.engine = "tokens"
    /\ chat.tokens < MaxChatTokens
    /\ chat' = yield_event([chat EXCEPT !.response_text = chat.response_text \o content,
                                        !.tokens = chat.tokens + 1],
                           "token", "loop")
    /\ UNCHANGED OtherThanChat

\* generate_response yields a source event
EngineSource ==
    /\ chat.pc = "awaiting"
    /\ chat.engine = "tokens"
    /\ chat' = yield_event([chat EXCEPT !.engine = "sources"], "source", "loop")
    /\ UNCHANGED OtherThanChat

\* generate_response yields its done event
EngineDone ==
    /\ chat.pc = "awaiting"
    /\ chat.engine \in {"tokens", "sources"}
    /\ chat' = yield_event([chat EXCEPT !.engine = "done"], "done", "loop")
    /\ UNCHANGED OtherThanChat

\* generate_response yields an error event: it is relayed and the inner
\* generator returns (lines 752-754)
EngineError ==
    /\ chat.pc = "awaiting"
    /\ chat.engine = "tokens"
    /\ chat' = yield_event([chat EXCEPT !.engine = "error"], "error", "return")
    /\ UNCHANGED OtherThanChat

\* an await of the try block raises: retrieve_context, get_session_messages or
\* the engine (lines 785-807)
AwaitRaises(kind) ==
    /\ chat.pc = "awaiting"
    /\ chat' = yield_event([chat EXCEPT !.interrupted = TRUE, !.engine = "raised"],
                           "error", kind)
    /\ UNCHANGED OtherThanChat

\* the client goes away while the generator is waiting for the engine: the
\* server cancels the task and CancelledError is raised at the await
\* (lines 770-783)
ClientDisconnect ==
    /\ chat.pc = "awaiting"
    /\ chat' = yield_event([chat EXCEPT !.interrupted = TRUE, !.engine = "cancelled"],
                           "error", "CancelledError")
    /\ UNCHANGED OtherThanChat

\* the consumer asks for the next event: the loop goes on, or the try block
\* is left and the finally clause runs
ConsumerNext ==
    /\ chat.pc = "yielding"
    /\ chat' = IF chat.resume = "loop" /\ chat.engine # "done"
               THEN [chat EXCEPT !.pc = "awaiting", !.resume = "none"]
               ELSE event_generator_finally(chat,
                       CASE chat.resume = "loop" -> "done"
                         [] chat.resume = "return" -> "error_event"
                         [] OTHER -> chat.resume)
    /\ UNCHANGED OtherThanChat

\* the client goes away while the generator is suspended at a yield: the
\* generator is closed, GeneratorExit is raised at the yield, no except clause
\* catches it and the finally clause runs
GeneratorClosed ==
    /\ chat.pc = "yielding"
    /\ chat' = event_generator_finally(chat, "GeneratorExit")
    /\ UNCHANGED OtherThanChat

NextChat ==
    \/ SendMessage
    \/ \E content \in ChatFragments : EngineToken(content)
    \/ EngineSource
    \/ EngineDone
    \/ EngineError
    \/ \E kind \in ChatErrors : AwaitRaises(kind)
    \/ ClientDisconnect
    \/ ConsumerNext
    \/ GeneratorClosed

SpecChat == Init /\ [][NextChat]_vars

\* the rows saved since the user message of the latest send_message
AssistantSaved == SubSeq(chat.messages, chat.saved_from + 1, Len(chat.messages))

\* C35: when the event stream of send_message has ended after at least one
\* token was relayed, exactly one assistant message was saved for it, holding
\* the accumulated answer text, and it is marked interrupted exactly when the
\* last event of the stream was not done.
C35_PartialAnswerSavedOnce ==
    (chat.pc = "closed" /\ chat.tokens >= 1) =>
       /\ Len(AssistantSaved) = 1
       /\ AssistantSaved[1].role = "assistant"
       /\ AssistantSaved[1].content = chat.response_text
       /\ (AssistantSaved[1].interrupted <=> chat.last_event # "done")

\* ---------------------------------------------------------------------
\* TaskManager and process_document_task (services/task_manager.py,
\* api/documents.py)
\* ---------------------------------------------------------------------
\* ProcessingStatus
PENDING == "pending"

CONVERTING == "converting"

CHUNKING == "chunking"

EMBEDDING == "embedding"

COMPLETE == "complete"

ERROR == "error"

\* TaskManager.PROGRESS_MESSAGES.get(status, "Processing...")
PROGRESS_MESSAGES(status) ==
    CASE status = PENDING -> <<"Queued for processing...">>
      [] status = CONVERTING -> <<"Converting document to text...">>
      [] status = CHUNKING -> <<"Splitting into searchable sections...">>
      [] status = COMPLETE -> <<"Ready">>
      [] OTHER -> <<"Processing...">>

\* TaskManager.create_task
create_task(ts, task_id) ==
    [ts EXCEPT ![task_id] = [status |-> PENDING, progress |-> PROGRESS_MESSAGES(PENDING),
                             error |-> ""]]

\* TaskManager.update_status; progress <<>> and error "" stand for None
update_status(ts, task_id, status, progress, error) ==
    IF ts[task_id] = NoTask THEN ts
    ELSE [ts EXCEPT ![task_id] =
            [status |-> status,
             progress |-> IF status = ERROR /\ error # "" THEN <<"Failed: ", error>>
                          ELSE IF progress # <<>> THEN progress
                          ELSE PROGRESS_MESSAGES(status),
             error |-> error]]

\* TaskManager.update_embedding_progress
update_embedding_progress(ts, task_id, current, total) ==
    update_status(ts, task_id, EMBEDDING,
                  <<"Generating embeddings... (chunk ", current, " of ", total, ")">>, "")

\* for i in range(i, total_chunks, 10): update_embedding_progress(...)
RECURSIVE embedding_progress_loop(_, _, _, _)
embedding_progress_loop(ts, task_id, i, total_chunks) ==
    IF i >= total_chunks THEN ts
    ELSE embedding_progress_loop(
            update_embedding_progress(ts, task_id,
                                      IF i + 10 < total_chunks THEN i + 10
                                      ELSE total_chunks,
                                      total_chunks),
            task_id, i + 10, total_chunks)

\* values of VOYAGE_API_KEY: not set, set
ApiKeys == {"", "key"}

\* numbers of chunks chunk_document returns
ChunkCounts == {0, 1, 11}

\* messages handed to _handle_processing_error by the except clauses that can
\* be reached from the await at which the pipeline is suspended
FailuresAt(pc) ==
    CASE pc = "converting" -> {"ProcessingError", "Something went wrong. Please try again."}
      [] pc = "chunking" -> {"Something went wrong. Please try again."}
      [] pc = "embedding" -> {"EmbeddingError", "Database error. Please try again.",
                              "Something went wrong. Please try again."}
      [] OTHER -> {}

\* every message an except clause of the pipeline hands on
ProcessingFailures ==
    FailuresAt("converting") \cup FailuresAt("chunking") \cup FailuresAt("embedding")

\* everything but the state of document processing
OtherThanTasks == <<clockVars, cbVars, clientVars, genVars, rlVars, cacheOpVars, keyVars, retrVars, chunkVars, chat>>

\* Settings(): VOYAGE_API_KEY is read from the environment, default None
LoadSettings(key) ==
    /\ voyage_api_key = "unloaded"
    /\ voyage_api_key' = key
    /\ UNCHANGED <<tasks, processing, OtherThanTasks>>

\* upload_document: the task is created and the pipeline is queued
UploadDocument(t) ==
    /\ voyage_api_key # "unloaded"
    /\ processing[t].pc = "none"
    /\ tasks' = create_task(tasks, t)
    /\ processing' = [processing EXCEPT ![t].pc = "queued"]
    /\ UNCHANGED <<voyage_api_key, OtherThanTasks>>

\* process_document_task up to `await processor.process_file`
StartProcessing(t) ==
    /\ processing[t].pc = "queued"
    /\ tasks' = update_status(tasks, t, CONVERTING, <<>>, "")
    /\ processing' = [processing EXCEPT ![t].pc = "converting"]
    /\ UNCHANGED <<voyage_api_key, OtherThanTasks>>

\* lines 475-511: the conversion is stored, the document is cut into n
\* chunks; with no chunk ChunkingError is raised, otherwise the chunks are
\* handed to the database
Converted(t, n) ==
    /\ processing[t].pc = "converting"
    /\ tasks' = update_status(tasks, t, CHUNKING, <<>>, "")
    /\ processing' = [processing EXCEPT ![t] =
                         IF n = 0
                         THEN [pc |-> "handling_error", total |-> 0,
                               error |-> "This document appears to be empty."]
                         ELSE [pc |-> "chunking", total |-> n, error |-> ""]]
    /\ UNCHANGED <<voyage_api_key, OtherThanTasks>>

\* lines 511-541: the chunks are committed; with no API key the task is
\* completed, otherwise the progress loop runs and the embeddings are requested
ChunksCommitted(t) ==
    /\ processing[t].pc = "chunking"
    /\ IF voyage_api_key = ""
       THEN /\ tasks' = update_status(tasks, t, COMPLETE, <<>>, "")
            /\ processing' = [processing EXCEPT ![t].pc = "finished"]
       ELSE /\ tasks' = embedding_progress_loop(tasks, t, 0, processing[t].total)
            /\ processing' = [processing EXCEPT ![t].pc = "embedding"]
    /\ UNCHANGED <<voyage_api_key, OtherThanTasks>>

\* lines 541-560: the embeddings are stored and the task is completed
Embedded(t) ==
    /\ processing[t].pc = "embedding"
    /\ tasks' = update_status(tasks, t, COMPLETE, <<>>, "")
    /\ processing' = [processing EXCEPT ![t].pc = "finished"]
    /\ UNCHANGED <<voyage_api_key, OtherThanTasks>>

\* lines 562-573: the await at which the pipeline is suspended raises
ProcessingRaises(t, message) ==
    /\ message \in FailuresAt(processing[t].pc)
    /\ processing' = [processing EXCEPT ![t].pc = "handling_error", ![t].error = message]
    /\ UNCHANGED <<tasks, voyage_api_key, OtherThanTasks>>

\* _handle_processing_error
HandleProcessingError(t) ==
    /\ processing[t].pc = "handling_error"
    /\ tasks' = update_status(tasks, t, ERROR, <<>>, processing[t].error)
    /\ processing' = [processing EXCEPT ![t].pc = "finished"]
    /\ UNCHANGED <<voyage_api_key, OtherThanTasks>>

\* delete_document: TaskManager.delete_task, whatever the pipeline is doing
DeleteDocument(t) ==
    /\ tasks[t] # NoTask
    /\ tasks' = [tasks EXCEPT ![t] = NoTask]
    /\ UNCHANGED <<processing, voyage_api_key, OtherThanTasks>>

NextTask ==
    \/ \E key \in ApiKeys : LoadSettings(key)
    \/ \E t \in TaskIds : UploadDocument(t)
    \/ \E t \in TaskIds : StartProcessing(t)
    \/ \E t \in TaskIds, n \in ChunkCounts : Converted(t, n)
    \/ \E t \in TaskIds : ChunksCommitted(t)
    \/ \E t \in TaskIds : Embedded(t)
    \/ \E t \in TaskIds, message \in ProcessingFailures : ProcessingRaises(t, message)
    \/ \E t \in TaskIds : HandleProcessingError(t)
    \/ \E t \in TaskIds : DeleteDocument(t)

SpecTask == Init /\ [][NextTask]_vars

\* the steps of the progression of a processing task
Progression ==
    {<<PENDING, CONVERTING>>, <<CONVERTING, CHUNKING>>, <<CHUNKING, EMBEDDING>>,
     <<EMBEDDING, COMPLETE>>}

\* C36: every change of the status of a tracked task is one step of
\* PENDING -> CONVERTING -> CHUNKING -> EMBEDDING -> COMPLETE, or a change from
\* a status other than COMPLETE and ERROR to ERROR.
C36_StatusProgression ==
    [][ \A t \in TaskIds :
          (tasks[t] # NoTask /\ tasks'[t] # NoTask
             /\ tasks'[t].status # tasks[t].status) =>
              \/ <<tasks[t].status, tasks'[t].status>> \in Progression
              \/ (tasks'[t].status = ERROR /\ tasks[t].status \notin {COMPLETE, ERROR})
      ]_vars

====
